---- MODULE Spec2Model ----
(***************************************************************************)
(* State-machine model of the Heartline Care Companion (app.py, db.py,     *)
(* security.py).  The SQLite tables and the per-browser Streamlit session  *)
(* state are the variables; every form submission, button press or widget  *)
(* callback is one action that runs the whole handler, including the auto- *)
(* login that precedes every anonymous render and any rerun it requests.   *)
(*                                                                         *)
(* Handlers are written as operators over a "world" record w: the acting   *)
(* session's state (w.st), its query parameters (w.qp), the database       *)
(* tables and the messages shown.  An action picks its inputs, applies the *)
(* handler to World(s) and commits the result.                             *)
(*                                                                         *)
(* Text is a sequence of one-character strings so that strip() and lower() *)
(* are computed.  Python's None for a text column or a dict is NULL / None;*)
(* the absent token is NoToken.  Hashes, key derivations, base64 and       *)
(* Fernet are symbolic constructors: injective, and opened only by the     *)
(* matching operation with the matching key.                               *)
(***************************************************************************)
EXTENDS Integers, Sequences, FiniteSets, TLC

VARIABLES
    users,            \* table users (row index = AUTOINCREMENT id)
    session_tokens,   \* table session_tokens (token_hash is UNIQUE)
    check_ins,        \* table check_ins
    appointments,     \* table appointments
    symptoms,         \* table symptoms
    devices,          \* table devices
    calendar_events,  \* table calendar_events (row index = AUTOINCREMENT id)
    personal_tasks,   \* table personal_tasks, in insertion order
    session_state,    \* st.session_state of each browser session
    query_params,     \* the `session` query parameter of each browser session
    now,              \* wall clock, in days
    rng,              \* number of os.urandom tokens drawn so far
    uuids,            \* number of uuid4 values drawn so far
    event_seq,        \* sqlite_sequence of calendar_events: the last id handed out
    messages,         \* st.error / st.success texts of the latest run
    issued,           \* history: every remember-me grant [token, user_id, key, issued_at]
    last_step,        \* history: the latest handler run and the token it was presented
    call              \* the helper function applied last: [fn, args, result]

vars == <<users, session_tokens, check_ins, appointments, symptoms, devices,
          calendar_events, personal_tasks, session_state, query_params,
          now, rng, uuids, event_seq, messages, issued, last_step, call>>

(***************************************************************************)
(* Bounds of the model.                                                    *)
(***************************************************************************)
MaxUsers == 2
MaxTokens == 2
MaxNow == 8
MaxTasks == 1
MaxReflections == 1
MaxEvents == 2
MaxLinkedTasks == 2
MaxUuids == 4

Sessions == {1, 2}

(***************************************************************************)
(* Program constants.                                                      *)
(***************************************************************************)
TokenTTLDays == 7
MinPasswordLen == 8
CheckInFetchLimit == 200
DEFAULT_THEME == "coquette"
THEME_PRESETS == {"coquette", "cloud", "matcha", "calm"}
HOME_SECTIONS == <<"Planner", "Widget shelf", "Deep care">>
SCHEDULES == <<"Day", "Night", "Mixed">>

(***************************************************************************)
(* Python values.                                                          *)
(***************************************************************************)
None == <<>>
Some(x) == <<x>>
Truthy(opt) == opt # None
NULL == "<NULL>"
NoToken == 0
OrDefault(value, default) == IF value = NULL \/ value = "" THEN default ELSE value

Min(S) == CHOOSE x \in S : \A y \in S : x <= y
Max(S) == CHOOSE x \in S : \A y \in S : x >= y

\* str.strip(): drop leading and trailing whitespace
Strip(text) ==
    LET keep == {i \in 1..Len(text) : text[i] # " "}
    IN  IF keep = {} THEN <<>> ELSE SubSeq(text, Min(keep), Max(keep))

LowerChar(c) ==
    CASE c = "A" -> "a"
      [] c = "B" -> "b"
      [] OTHER -> c

\* str.lower()
Lower(text) == [i \in 1..Len(text) |-> LowerChar(text[i])]

\* email.strip().lower()
NormalizeEmail(email) == Lower(Strip(email))

(***************************************************************************)
(* security.py                                                             *)
(*   A text is empty exactly when its DOMAIN is empty: <<>> is the empty   *)
(*   str/bytes, every symbolic value is a record.                          *)
(***************************************************************************)
IsEmpty(value) == DOMAIN value = {}

pbkdf2(password, salt) == [kdf_password |-> password, kdf_salt |-> salt]

b64encode(data) == [b64 |-> data]

\* base64.b64decode: the empty text decodes to the empty bytes, text that is
\* no base64 raises binascii.Error (ok = FALSE)
b64decode(text) ==
    IF IsEmpty(text) THEN [ok |-> TRUE, value |-> <<>>]
    ELSE IF "b64" \in DOMAIN text THEN [ok |-> TRUE, value |-> text.b64]
    ELSE [ok |-> FALSE, value |-> <<>>]

create_password_record(password, salt) ==
    [password_hash |-> b64encode(pbkdf2(password, salt)), password_salt |-> b64encode(salt)]

secrets_compare_digest(a, b) == a = b

\* a verification that never hashes the candidate password
verify_password_hash_only(password, stored_hash_b64, salt_b64) ==
    LET expected_hash == b64decode(stored_hash_b64).value
    IN  secrets_compare_digest(expected_hash, expected_hash)

verify_password(password, stored_hash_b64, salt_b64) ==
    LET salt == b64decode(salt_b64).value
        expected_hash == b64decode(stored_hash_b64).value
        candidate_hash == pbkdf2(password, salt)
    IN  secrets_compare_digest(expected_hash, candidate_hash)

derive_encryption_key(password, salt_b64) ==
    [urlsafe_b64 |-> pbkdf2(password, b64decode(salt_b64).value)]

UnableToDecrypt == [sentinel |-> "[unable to decrypt]"]

\* an encryption that trims the text first
encrypt_text_stripped(plaintext, key) ==
    IF IsEmpty(Strip(plaintext)) THEN <<>>
    ELSE [fernet |-> Strip(plaintext), key |-> key]

\* Fernet(key).encrypt; the empty text is stored as the empty string
encrypt_text(plaintext, key) ==
    IF IsEmpty(plaintext) THEN <<>>
    ELSE [fernet |-> plaintext, key |-> key]

\* Fernet(key).decrypt; InvalidToken becomes the sentinel text
decrypt_text(ciphertext, key) ==
    IF IsEmpty(ciphertext) THEN <<>>
    ELSE IF ciphertext.key = key THEN ciphertext.fernet
    ELSE UnableToDecrypt

(***************************************************************************)
(* Remember-me token helpers (app.py)                                      *)
(***************************************************************************)
hash_token(token) == [sha256_hex |-> token]

derive_persistent_key(token) == [urlsafe_b64 |-> [sha256_remember |-> token]]

(***************************************************************************)
(* Generic sequence helpers: SQL "WHERE" and a stable "ORDER BY".          *)
(***************************************************************************)
RECURSIVE InsertSorted(_, _, _)
\* insert row after every element whose key is <= key(row): ties keep insertion order
InsertSorted(sorted, row, keyOf) ==
    IF sorted = <<>> THEN <<row>>
    ELSE IF keyOf[Head(sorted)] <= keyOf[row] THEN <<Head(sorted)>> \o InsertSorted(Tail(sorted), row, keyOf)
    ELSE <<row>> \o sorted

RECURSIVE SortIndices(_, _)
\* the indices of `order` sorted by ascending keyOf[i], stable; an order that
\* is ascending already is its own sorted order
SortIndices(order, keyOf) ==
    IF \A i \in 1..(Len(order) - 1) : keyOf[order[i]] <= keyOf[order[i + 1]] THEN order
    ELSE LET n == Len(order)
         IN  InsertSorted(SortIndices(SubSeq(order, 1, n - 1), keyOf), order[n], keyOf)

Indices(rows) == [i \in 1..Len(rows) |-> i]

\* rows ORDER BY key ASC
OrderByAsc(rows, Key(_)) ==
    LET idx == SortIndices(Indices(rows), [i \in 1..Len(rows) |-> Key(rows[i])])
    IN  [k \in 1..Len(rows) |-> rows[idx[k]]]

\* rows ORDER BY key DESC
OrderByDesc(rows, Key(_)) ==
    LET idx == SortIndices(Indices(rows), [i \in 1..Len(rows) |-> 0 - Key(rows[i])])
    IN  [k \in 1..Len(rows) |-> rows[idx[k]]]

OwnedBy(rows, user_id) == SelectSeq(rows, LAMBDA row : row.user_id = user_id)

Limit(rows, n) == IF Len(rows) <= n THEN rows ELSE SubSeq(rows, 1, n)

\* datetime.isoformat / datetime.fromisoformat; ISO texts order as their instants do
isoformat(instant) == [iso |-> instant]
fromisoformat(text) == text.iso

\* json.dumps / json.loads
json_dumps(value) == [json |-> value]
json_loads(text) == text.json

(***************************************************************************)
(* db.py: user helpers                                                     *)
(***************************************************************************)
create_user(table, email, full_name, password_hash, password_salt, encryption_salt) ==
    Append(table,
           [id |-> Len(table) + 1, email |-> email, full_name |-> full_name,
            password_hash |-> password_hash, password_salt |-> password_salt,
            encryption_salt |-> encryption_salt, theme_preference |-> NULL,
            birthday |-> NULL, zodiac_sign |-> NULL, fun_fact |-> NULL,
            avatar_base64 |-> NULL, tour_completed |-> FALSE])

\* a lookup that only ever inspects the oldest account
get_user_by_email_first(table, email) ==
    IF table # <<>> /\ Head(table).email = email THEN Some(Head(table)) ELSE None

\* SELECT * FROM users WHERE email = ?  (None when there is no such row)
get_user_by_email(table, email) ==
    LET hits == SelectSeq(table, LAMBDA row : row.email = email)
    IN  IF hits = <<>> THEN None ELSE Some(Head(hits))

get_user_by_id(table, user_id) ==
    IF user_id \in 1..Len(table) THEN Some(table[user_id]) ELSE None

update_user_theme(table, user_id, theme_key) ==
    [i \in 1..Len(table) |->
        IF table[i].id = user_id THEN [table[i] EXCEPT !.theme_preference = theme_key] ELSE table[i]]

mark_tour_completed(table, user_id) ==
    [i \in 1..Len(table) |->
        IF table[i].id = user_id THEN [table[i] EXCEPT !.tour_completed = TRUE] ELSE table[i]]

(***************************************************************************)
(* db.py: fetch helpers                                                    *)
(***************************************************************************)
fetch_check_ins(table, user_id, limit) ==
    Limit(OrderByAsc(OwnedBy(table, user_id), LAMBDA row : fromisoformat(row.timestamp)), limit)

fetch_appointments(table, user_id) ==
    OrderByAsc(OwnedBy(table, user_id), LAMBDA row : fromisoformat(row.date))

fetch_symptoms(table, user_id) ==
    OrderByDesc(OwnedBy(table, user_id), LAMBDA row : fromisoformat(row.date))

fetch_devices(table, user_id) ==
    OrderByDesc(OwnedBy(table, user_id), LAMBDA row : fromisoformat(row.created_at))

fetch_calendar_events(table, user_id) ==
    OrderByAsc(OwnedBy(table, user_id), LAMBDA row : fromisoformat(row.start_at))

fetch_personal_tasks(table, user_id) ==
    OrderByAsc(OwnedBy(table, user_id), LAMBDA row : fromisoformat(row.created_at))

(***************************************************************************)
(* db.py: session tokens                                                   *)
(***************************************************************************)
\* INSERT OR REPLACE: token_hash is UNIQUE
store_session_token(table, user_id, token_hash, encrypted_key, expires_at) ==
    {row \in table : row.token_hash # token_hash}
        \cup {[user_id |-> user_id, token_hash |-> token_hash,
               encrypted_key |-> encrypted_key, expires_at |-> expires_at]}

fetch_session_token(table, token_hash) ==
    LET hits == {row \in table : row.token_hash = token_hash}
    IN  IF hits = {} THEN None ELSE Some(CHOOSE row \in hits : TRUE)

delete_session_token(table, token_hash) == {row \in table : row.token_hash # token_hash}

(***************************************************************************)
(* Session state (app.py: init_state, reset_user_state)                    *)
(***************************************************************************)
\* a key that is not in st.session_state
Absent == "<absent>"

\* the defaults seeded for a key that is not yet in st.session_state
init_state ==
    [check_ins |-> <<>>, appointments |-> <<>>, symptoms |-> <<>>,
     calendar_events |-> <<>>, devices |-> <<>>,
     selected_schedule |-> "Day", latest_energy |-> 5,
     user |-> None, crypto_key |-> None, data_loaded |-> FALSE,
     persistent_token |-> NoToken, tasks |-> <<>>,
     reentry_acknowledged |-> FALSE, reflections |-> <<>>,
     theme_key |-> DEFAULT_THEME, hydration_oz |-> 0,
     home_section |-> HOME_SECTIONS[1], daily_reflections |-> <<>>,
     body_check_frequency |-> "Never", tutorial_open |-> FALSE,
     \* keys render_focus_timer adds at its first run
     focus_timer_state |-> Absent, focus_timer_message |-> ""]

\* a reset that leaves the personal tasks in the session
reset_user_state_keeps_tasks(w) ==
    [w EXCEPT !.st.check_ins = <<>>, !.st.appointments = <<>>, !.st.symptoms = <<>>,
              !.st.calendar_events = <<>>, !.st.devices = <<>>,
              !.st.user = None, !.st.crypto_key = None, !.st.data_loaded = FALSE,
              !.st.persistent_token = NoToken,
              !.st.selected_schedule = "Day", !.st.latest_energy = 5,
              !.st.hydration_oz = 0,
              !.st.theme_key = DEFAULT_THEME, !.st.tutorial_open = FALSE]

reset_user_state(w) ==
    [w EXCEPT !.st.check_ins = <<>>, !.st.appointments = <<>>, !.st.symptoms = <<>>,
              !.st.calendar_events = <<>>, !.st.devices = <<>>,
              !.st.user = None, !.st.crypto_key = None, !.st.data_loaded = FALSE,
              !.st.persistent_token = NoToken,
              !.st.selected_schedule = "Day", !.st.latest_energy = 5,
              !.st.tasks = <<>>, !.st.hydration_oz = 0,
              !.st.theme_key = DEFAULT_THEME, !.st.tutorial_open = FALSE]

user_row_to_session_payload(row) ==
    [id |-> row.id, email |-> row.email, name |-> row.full_name,
     theme |-> OrDefault(row.theme_preference, DEFAULT_THEME),
     birthday |-> row.birthday, zodiac |-> row.zodiac_sign,
     fun_fact |-> row.fun_fact, avatar |-> row.avatar_base64]

\* dict.get("tour_completed", False)
get_tour_completed(payload) ==
    IF "tour_completed" \in DOMAIN payload THEN payload.tour_completed ELSE FALSE

get_query_param_token(w) == w.qp

\* a query-parameter write that is silently dropped
set_query_param_token_dropped(w, token) == w

set_query_param_token(w, token) == [w EXCEPT !.qp = token]

normalize_event_tasks(raw_tasks) ==
    LET tasks == [i \in 1..Len(raw_tasks) |->
                    [id |-> raw_tasks[i].id, label |-> raw_tasks[i].label,
                     done |-> raw_tasks[i].done, linked_task_id |-> raw_tasks[i].linked_task_id]]
    IN  SelectSeq(tasks, LAMBDA task : task.label # <<>>)

load_user_data(w) ==
    IF ~Truthy(w.st.user) \/ ~Truthy(w.st.crypto_key) THEN w
    ELSE
    LET uid == w.st.user[1].id
        key == w.st.crypto_key[1]
        user_row == get_user_by_id(w.users, uid)
        user == IF Truthy(user_row) THEN Some(user_row_to_session_payload(user_row[1])) ELSE w.st.user
        ci_rows == fetch_check_ins(w.check_ins, uid, CheckInFetchLimit)
        ap_rows == fetch_appointments(w.appointments, uid)
        sy_rows == fetch_symptoms(w.symptoms, uid)
        dv_rows == fetch_devices(w.devices, uid)
        pt_rows == fetch_personal_tasks(w.personal_tasks, uid)
        ev_rows == fetch_calendar_events(w.calendar_events, uid)
        loaded_check_ins ==
            [i \in 1..Len(ci_rows) |->
                [timestamp |-> fromisoformat(ci_rows[i].timestamp), mood |-> ci_rows[i].mood,
                 energy |-> ci_rows[i].energy, schedule |-> ci_rows[i].schedule,
                 note |-> decrypt_text(ci_rows[i].note_encrypted, key)]]
        theme_pref == user[1].theme
    IN  [w EXCEPT
            !.st.user = user,
            !.st.check_ins = loaded_check_ins,
            !.st.appointments =
                [i \in 1..Len(ap_rows) |->
                    [title |-> decrypt_text(ap_rows[i].title_encrypted, key),
                     category |-> ap_rows[i].category,
                     provider |-> decrypt_text(ap_rows[i].provider_encrypted, key),
                     date |-> fromisoformat(ap_rows[i].date),
                     notes |-> decrypt_text(ap_rows[i].notes_encrypted, key)]],
            !.st.symptoms =
                [i \in 1..Len(sy_rows) |->
                    [symptom |-> decrypt_text(sy_rows[i].symptom_encrypted, key),
                     severity |-> sy_rows[i].severity,
                     notes |-> decrypt_text(sy_rows[i].notes_encrypted, key),
                     date |-> fromisoformat(sy_rows[i].date)]],
            !.st.devices =
                [i \in 1..Len(dv_rows) |->
                    [id |-> dv_rows[i].id, label |-> OrDefault(dv_rows[i].label, "Unnamed device"),
                     token |-> dv_rows[i].expo_token]],
            !.st.tasks =
                [i \in 1..Len(pt_rows) |->
                    [id |-> pt_rows[i].id, title |-> pt_rows[i].title, size |-> pt_rows[i].size,
                     done |-> pt_rows[i].done, created_at |-> pt_rows[i].created_at,
                     completed_at |-> pt_rows[i].completed_at]],
            !.st.calendar_events =
                [i \in 1..Len(ev_rows) |->
                    [id |-> ev_rows[i].id,
                     title |-> decrypt_text(ev_rows[i].title_encrypted, key),
                     location |-> decrypt_text(ev_rows[i].location_encrypted, key),
                     notes |-> decrypt_text(ev_rows[i].description_encrypted, key),
                     tag |-> OrDefault(ev_rows[i].tag, "Personal"),
                     color |-> OrDefault(ev_rows[i].color, "#AEBFA7"),
                     start |-> fromisoformat(ev_rows[i].start_at),
                     end |-> fromisoformat(ev_rows[i].end_at),
                     tasks |-> normalize_event_tasks(json_loads(ev_rows[i].tasks_json))]],
            !.st.selected_schedule =
                IF loaded_check_ins # <<>> THEN loaded_check_ins[Len(loaded_check_ins)].schedule ELSE @,
            !.st.latest_energy =
                IF loaded_check_ins # <<>> THEN loaded_check_ins[Len(loaded_check_ins)].energy ELSE @,
            !.st.theme_key = IF theme_pref \in THEME_PRESETS THEN theme_pref ELSE @,
            !.st.data_loaded = TRUE]

ensure_data_loaded(w) ==
    IF Truthy(w.st.user) /\ ~w.st.data_loaded THEN load_user_data(w) ELSE w

(***************************************************************************)
(* Persistent "remember me" session (app.py)                               *)
(***************************************************************************)
\* a grant whose record expires the moment it is written
remember_user_session_no_ttl(w, user_id, crypto_key) ==
    LET token == w.rng + 1
        encrypted_key == encrypt_text(b64encode(crypto_key), derive_persistent_key(token))
    IN  [w EXCEPT !.rng = token,
                  !.session_tokens = store_session_token(@, user_id, hash_token(token),
                                                         encrypted_key, isoformat(now)),
                  !.st.persistent_token = token,
                  !.qp = token]

remember_user_session(w, user_id, crypto_key) ==
    LET token == w.rng + 1
        db_token == hash_token(token)
        fernet_key == derive_persistent_key(token)
        encrypted_key == encrypt_text(b64encode(crypto_key), fernet_key)
        expires_at == isoformat(now + TokenTTLDays)
    IN  set_query_param_token(
            [w EXCEPT !.rng = token,
                      !.session_tokens = store_session_token(@, user_id, db_token, encrypted_key, expires_at),
                      !.st.persistent_token = token],
            token)

clear_persistent_session(w) ==
    LET token == IF w.st.persistent_token # NoToken THEN w.st.persistent_token
                 ELSE get_query_param_token(w)
        w1 == IF token # NoToken
              THEN [w EXCEPT !.session_tokens = delete_session_token(@, hash_token(token))]
              ELSE w
    IN  set_query_param_token([w1 EXCEPT !.st.persistent_token = NoToken], NoToken)

effective_theme(user_row) ==
    LET theme_pref == OrDefault(user_row.theme_preference, DEFAULT_THEME)
    IN  IF theme_pref \in THEME_PRESETS THEN theme_pref ELSE DEFAULT_THEME

\* an auto-login that renews the expiry of the record it used
auto_login_from_token_renewing(w) ==
    IF Truthy(w.st.user) THEN w
    ELSE
    LET token == IF w.st.persistent_token # NoToken THEN w.st.persistent_token
                 ELSE get_query_param_token(w)
        record == fetch_session_token(w.session_tokens, hash_token(token))
    IN
    IF token = NoToken THEN w
    ELSE IF ~Truthy(record) THEN set_query_param_token(w, NoToken)
    ELSE IF fromisoformat(record[1].expires_at) < now
    THEN set_query_param_token(
            [w EXCEPT !.session_tokens = delete_session_token(@, record[1].token_hash)], NoToken)
    ELSE
    LET user_row == get_user_by_id(w.users, record[1].user_id)
    IN
    IF ~Truthy(user_row) THEN clear_persistent_session(w)
    ELSE
    LET key_string == decrypt_text(record[1].encrypted_key, derive_persistent_key(token))
        decoded == b64decode(key_string)
        theme_pref == effective_theme(user_row[1])
        session_user == [user_row_to_session_payload(user_row[1]) EXCEPT !.theme = theme_pref]
    IN
    IF ~decoded.ok THEN clear_persistent_session(w)
    ELSE load_user_data(
            [w EXCEPT !.session_tokens =
                          store_session_token(@, record[1].user_id, record[1].token_hash,
                                              record[1].encrypted_key,
                                              isoformat(now + TokenTTLDays)),
                      !.st.user = Some(session_user),
                      !.st.theme_key = theme_pref,
                      !.st.crypto_key = IF IsEmpty(decoded.value) THEN None ELSE Some(decoded.value),
                      !.st.persistent_token = token,
                      !.st.data_loaded = FALSE,
                      !.st.tutorial_open = ~get_tour_completed(session_user)])

auto_login_from_token(w) ==
    IF Truthy(w.st.user) THEN w
    ELSE
    LET token == IF w.st.persistent_token # NoToken THEN w.st.persistent_token
                 ELSE get_query_param_token(w)
        record == fetch_session_token(w.session_tokens, hash_token(token))
    IN
    IF token = NoToken THEN w
    ELSE IF ~Truthy(record) THEN set_query_param_token(w, NoToken)
    ELSE IF fromisoformat(record[1].expires_at) < now
    THEN set_query_param_token(
            [w EXCEPT !.session_tokens = delete_session_token(@, record[1].token_hash)], NoToken)
    ELSE
    LET user_row == get_user_by_id(w.users, record[1].user_id)
    IN
    IF ~Truthy(user_row) THEN clear_persistent_session(w)
    ELSE
    LET key_string == decrypt_text(record[1].encrypted_key, derive_persistent_key(token))
        decoded == b64decode(key_string)
        theme_pref == effective_theme(user_row[1])
        session_user == [user_row_to_session_payload(user_row[1]) EXCEPT !.theme = theme_pref]
    IN
    IF ~decoded.ok THEN clear_persistent_session(w)
    ELSE load_user_data(
            [w EXCEPT !.st.user = Some(session_user),
                      !.st.theme_key = theme_pref,
                      !.st.crypto_key = IF IsEmpty(decoded.value) THEN None ELSE Some(decoded.value),
                      !.st.persistent_token = token,
                      !.st.data_loaded = FALSE,
                      !.st.tutorial_open = ~get_tour_completed(session_user)])

\* one top-to-bottom run of the script with no widget event: auth_panel's
\* auto-login, then the selected view, which begins with ensure_data_loaded
main(w) ==
    LET w1 == auto_login_from_token(w)
    IN  IF Truthy(w1.st.user) THEN ensure_data_loaded(w1) ELSE w1

(***************************************************************************)
(* auth_panel (app.py): the sign-in and the create-account forms           *)
(***************************************************************************)
login_form(w, email, password, remember_me) ==
    LET email_normalized == NormalizeEmail(email)
        record == get_user_by_email(w.users, email_normalized)
    IN
    IF Truthy(record) /\ verify_password(password, record[1].password_hash, record[1].password_salt)
    THEN
        LET key == derive_encryption_key(password, record[1].encryption_salt)
            theme_pref == effective_theme(record[1])
            user_payload == [user_row_to_session_payload(record[1]) EXCEPT !.theme = theme_pref]
            w1 == [w EXCEPT !.st.user = Some(user_payload),
                            !.st.theme_key = theme_pref,
                            !.st.crypto_key = Some(key),
                            !.st.data_loaded = FALSE,
                            !.st.tutorial_open = ~get_tour_completed(user_payload)]
            w2 == IF remember_me
                  THEN remember_user_session(clear_persistent_session(w1), record[1].id, key)
                  ELSE clear_persistent_session(w1)
        IN  main(load_user_data(w2))                      \* st.rerun()
    ELSE [w EXCEPT !.msgs = @ \cup {"Invalid credentials."}]

register_form(w, name, email_reg, password_reg, confirm, remember_new) ==
    LET email_norm == NormalizeEmail(email_reg)
        errors ==
            (IF email_norm = <<>> THEN {"Email is required."} ELSE {})
            \cup (IF password_reg # confirm THEN {"Passwords do not match."} ELSE {})
            \cup (IF Len(password_reg) < MinPasswordLen
                  THEN {"Password must be at least 8 characters."} ELSE {})
            \cup (IF Truthy(get_user_by_email(w.users, email_norm))
                  THEN {"Account already exists."} ELSE {})
    IN
    IF errors # {} THEN [w EXCEPT !.msgs = @ \cup errors]
    ELSE
        LET user_id == Len(w.users) + 1
            \* os.urandom(16), twice: two values never drawn before
            password_record == create_password_record(password_reg, 2 * user_id - 1)
            encryption_salt == b64encode(2 * user_id)
            created == create_user(w.users, email_norm, name, password_record.password_hash,
                                   password_record.password_salt, encryption_salt)
            key == derive_encryption_key(password_reg, encryption_salt)
            w1 == [w EXCEPT !.users = update_user_theme(created, user_id, DEFAULT_THEME),
                            !.st.user = Some([id |-> user_id, email |-> email_norm, name |-> name,
                                              theme |-> DEFAULT_THEME, birthday |-> NULL,
                                              zodiac |-> NULL, fun_fact |-> "", avatar |-> NULL,
                                              tour_completed |-> FALSE]),
                            !.st.theme_key = DEFAULT_THEME,
                            !.st.crypto_key = Some(key),
                            !.st.data_loaded = FALSE]
            w2 == clear_persistent_session(w1)
            w3 == IF remember_new THEN remember_user_session(w2, user_id, key) ELSE w2
        IN  main(load_user_data(w3))                      \* st.rerun()

\* auth_panel: auto-login first; the forms exist only while it leaves the session anonymous
auth_panel_login(w, email, password, remember_me) ==
    LET w1 == auto_login_from_token(w)
    IN  IF Truthy(w1.st.user) THEN w1 ELSE login_form(w1, email, password, remember_me)

auth_panel_register(w, name, email_reg, password_reg, confirm, remember_new) ==
    LET w1 == auto_login_from_token(w)
    IN  IF Truthy(w1.st.user) THEN w1
        ELSE register_form(w1, name, email_reg, password_reg, confirm, remember_new)

\* render_profile_page: the "Sign out" button
sign_out(w) == main(reset_user_state(clear_persistent_session(main(w))))

\* render_tutorial._on_save: "Save & close"
tour_on_save(w) ==
    LET user == w.st.user
        w1 == IF Truthy(user)
              THEN [w EXCEPT !.users = mark_tour_completed(@, user[1].id),
                             !.st.user = Some([tour_completed |-> TRUE] @@ user[1])]
              ELSE w
    IN  main([w1 EXCEPT !.st.tutorial_open = FALSE])

\* render_tutorial: the fallback panel's "Close"
tour_close(w) == main([w EXCEPT !.st.tutorial_open = FALSE])

\* render_profile_card: "Help & tour"
open_tour(w) == main([w EXCEPT !.st.tutorial_open = TRUE])

(***************************************************************************)
(* Personal tasks and session-only notes used on the Home page             *)
(***************************************************************************)
uuid4(n) == [uuid |-> n]

insert_personal_task(table, user_id, task_id, title, size, created_at) ==
    Append(table, [id |-> task_id, user_id |-> user_id, title |-> title, size |-> size,
                   done |-> FALSE, created_at |-> created_at, completed_at |-> None])

add_personal_task(w, title, size) ==
    IF ~Truthy(w.st.user) THEN [w EXCEPT !.msgs = @ \cup {"Sign in to save personal tasks."}]
    ELSE
        LET task == [id |-> uuid4(w.uuids + 1), title |-> title, size |-> size, done |-> FALSE,
                     created_at |-> isoformat(now), completed_at |-> None]
        IN  [w EXCEPT !.uuids = @ + 1,
                      !.st.tasks = Append(@, task),
                      !.personal_tasks = insert_personal_task(@, w.st.user[1].id, task.id,
                                                              task.title, task.size, task.created_at)]

\* the id add_personal_task returns ("" when nobody is signed in)
added_task_id(w) == IF Truthy(w.st.user) THEN Some(uuid4(w.uuids + 1)) ELSE None

\* Home planner: "Save task"
planner_save_task(w, new_task, size) ==
    IF Strip(new_task) # <<>>
    THEN [add_personal_task(w, Strip(new_task), size) EXCEPT !.msgs = @ \cup {"Task tucked into the cloud."}]
    ELSE [w EXCEPT !.msgs = @ \cup {"Give the task a tiny name first."}]

\* the slots filled without looking at the done flag
RECURSIVE fill_slots_counting_done(_, _)
fill_slots_counting_done(tasks, slots) ==
    IF tasks = <<>> THEN slots
    ELSE LET task == Head(tasks)
         IN  fill_slots_counting_done(
                Tail(tasks),
                IF task.size \in DOMAIN slots /\ slots[task.size] = None
                THEN [slots EXCEPT ![task.size] = Some(task)]
                ELSE slots)

\* the loop of today_three_tasks over st.session_state.tasks; a size that is
\* not a key of slots adds a key nobody reads
RECURSIVE fill_slots(_, _)
fill_slots(tasks, slots) ==
    IF tasks = <<>> THEN slots
    ELSE LET task == Head(tasks)
         IN  fill_slots(
                Tail(tasks),
                IF ~task.done /\ task.size \in DOMAIN slots /\ slots[task.size] = None
                THEN [slots EXCEPT ![task.size] = Some(task)]
                ELSE slots)

guidance ==
    [Big |-> <<"Choose one bold move (project chunk, call, study sprint).">>,
     Medium |-> <<"Handle an admin task or prep a meal.">>,
     Tiny |-> <<"Send one message or tidy one corner.">>]

TrioOrder == <<"Big", "Medium", "Tiny">>

today_three_tasks(tasks) ==
    LET slots == fill_slots(tasks, [Big |-> None, Medium |-> None, Tiny |-> None])
    IN  [i \in 1..3 |->
            LET size == TrioOrder[i]
            IN  IF Truthy(slots[size]) THEN slots[size][1]
                ELSE [id |-> [placeholder |-> size], size |-> size,
                      title |-> guidance[size], done |-> FALSE]]

\* UPDATE users without the WHERE id = ? clause
update_user_profile_every_row(table, user_id, full_name, birthday, zodiac_sign, fun_fact) ==
    [i \in 1..Len(table) |->
        [table[i] EXCEPT !.full_name = full_name, !.birthday = birthday,
                         !.zodiac_sign = zodiac_sign, !.fun_fact = fun_fact]]

(* Profile page (app.py, db.py) *)
update_user_profile(table, user_id, full_name, birthday, zodiac_sign, fun_fact) ==
    [i \in 1..Len(table) |->
        IF table[i].id = user_id
        THEN [table[i] EXCEPT !.full_name = full_name, !.birthday = birthday,
                              !.zodiac_sign = zodiac_sign, !.fun_fact = fun_fact]
        ELSE table[i]]

\* datetime.date(year, month, day) raises ValueError unless the day exists
days_in_month(year, month) ==
    IF month = 2
    THEN (IF (year % 4 = 0 /\ year % 100 # 0) \/ year % 400 = 0 THEN 29 ELSE 28)
    ELSE IF month \in {4, 6, 9, 11} THEN 30 ELSE 31

is_date(year, month, day) ==
    /\ year \in 1..9999
    /\ month \in 1..12
    /\ day \in 1..days_in_month(year, month)

\* the str whose characters are the given ones
RECURSIVE text_of(_)
text_of(chars) == IF chars = <<>> THEN "" ELSE Head(chars) \o text_of(Tail(chars))

zero_padded(n) == IF n < 10 THEN "0" \o ToString(n) ELSE ToString(n)

\* date.isoformat(): "YYYY-MM-DD" (years here have four digits)
date_isoformat(year, month, day) ==
    ToString(year) \o "-" \o zero_padded(month) \o "-" \o zero_padded(day)

current_theme_key(w) == IF w.st.theme_key \in THEME_PRESETS THEN w.st.theme_key ELSE DEFAULT_THEME

persist_theme_choice(w, theme_key) ==
    IF theme_key \notin THEME_PRESETS THEN w
    ELSE IF Truthy(w.st.user)
    THEN [w EXCEPT !.users = update_user_theme(@, w.st.user[1].id, theme_key),
                   !.st.user[1].theme = theme_key,
                   !.st.theme_key = theme_key]
    ELSE [w EXCEPT !.st.theme_key = theme_key]

\* Profile, "Details & theme": "Save profile aura". zodiac_choice is an option
\* [sign, dates] of the select box, written "<sign> (<dates>)".
profile_details_form(w, preferred_name, year_input, month_input, day_input, zodiac_choice, fun_fact_input, theme_choice) ==
    LET user == w.st.user[1]
        current_theme == current_theme_key(w)
        clean_name == IF Strip(preferred_name) # <<>> THEN text_of(Strip(preferred_name))
                      ELSE user.name
        valid == is_date(year_input, month_input, day_input)
        birthday_str == IF valid THEN date_isoformat(year_input, month_input, day_input) ELSE NULL
        fun_fact_clean == text_of(Strip(fun_fact_input))
        zodiac_clean == zodiac_choice.sign
        w1 == [w EXCEPT !.msgs = IF valid THEN @
                                 ELSE @ \cup {"Birthday is invalid. Please adjust day/month/year."},
                        !.users = update_user_profile(@, user.id, clean_name, birthday_str,
                                                      zodiac_clean, fun_fact_clean),
                        !.st.user[1].name = clean_name,
                        !.st.user[1].birthday = birthday_str,
                        !.st.user[1].zodiac = zodiac_clean,
                        !.st.user[1].fun_fact = fun_fact_clean]
        w2 == IF theme_choice # current_theme THEN persist_theme_choice(w1, theme_choice) ELSE w1
    IN  [w2 EXCEPT !.msgs = @ \cup {"Profile saved."}]

(* Check-ins (app.py, db.py) *)
insert_check_in(table, user_id, payload) ==
    Append(table, [id |-> Len(table) + 1, user_id |-> user_id, timestamp |-> payload.timestamp,
                   mood |-> payload.mood, energy |-> payload.energy,
                   schedule |-> payload.schedule, note_encrypted |-> payload.note_encrypted])

store_check_in(w, entry) ==
    IF ~Truthy(w.st.user) \/ ~Truthy(w.st.crypto_key)
    THEN [w EXCEPT !.msgs = @ \cup {"Please sign in to log check-ins."}]
    ELSE
        LET payload == [timestamp |-> isoformat(entry.timestamp), mood |-> entry.mood,
                        energy |-> entry.energy, schedule |-> entry.schedule,
                        note_encrypted |-> encrypt_text(entry.note, w.st.crypto_key[1])]
        IN  load_user_data(
                [w EXCEPT !.check_ins = insert_check_in(@, w.st.user[1].id, payload),
                          !.st.selected_schedule = entry.schedule,
                          !.st.latest_energy = entry.energy,
                          !.st.reentry_acknowledged = TRUE,
                          !.st.data_loaded = FALSE])

\* Home, Deep care, Check-in tab: "Save check-in"; clock is datetime.now()
check_in_home(w, clock, mood, energy, schedule, highlight) ==
    [store_check_in(w, [timestamp |-> clock, mood |-> mood, energy |-> energy,
                        schedule |-> schedule, note |-> highlight])
     EXCEPT !.msgs = @ \cup {"Logged with care."}]

(***************************************************************************)
(* Focus timer (app.py: render_focus_timer)                                *)
(***************************************************************************)
\* a preset threshold read one too low
focus_timer_preset_strict(latest_energy) ==
    IF latest_energy < 3 THEN [work |-> 10, rest |-> 5]
    ELSE IF latest_energy < 7 THEN [work |-> 25, rest |-> 5]
    ELSE [work |-> 45, rest |-> 15]

\* the work and rest minutes (the caption of the preset is not kept)
focus_timer_preset(latest_energy) ==
    IF latest_energy <= 3 THEN [work |-> 10, rest |-> 5]
    ELSE IF latest_energy <= 7 THEN [work |-> 25, rest |-> 5]
    ELSE [work |-> 45, rest |-> 15]

NoButton == "none"

\* one run of the widget; pressed is the key of the button that was clicked,
\* st.button is True only for the button this run creates
render_focus_timer(w, pressed) ==
    LET w0 == IF w.st.focus_timer_state = Absent
              THEN [w EXCEPT !.st.focus_timer_state = "ready", !.st.focus_timer_message = ""]
              ELSE w
        preset == focus_timer_preset(w0.st.latest_energy)
        state == w0.st.focus_timer_state
        announce(next_state, message) ==
            [w0 EXCEPT !.st.focus_timer_state = next_state,
                       !.st.focus_timer_message = message,
                       !.msgs = @ \cup {message}]
    IN  IF state = "ready" /\ pressed = "focus_start"
        THEN announce("work", "Working for " \o ToString(preset.work) \o " minutes...")
        ELSE IF state = "work" /\ pressed = "focus_end_work"
        THEN announce("break", "Break for " \o ToString(preset.rest) \o " minutes.")
        ELSE IF state = "break" /\ pressed = "focus_end_break"
        THEN announce("ready", "Cycle complete. Start again whenever you're ready.")
        ELSE w0

\* Home, "Energy Check" slider
energy_check_slider(w, latest_energy) == [w EXCEPT !.st.latest_energy = latest_energy]

ENERGY_TASK_LIBRARY ==
    [key \in {"low energy", "medium energy", "high energy"} |->
        CASE key = "low energy" ->
                <<"Sip warm water with lemon", "Put away one item",
                  "Send a 'thinking of you' emoji">>
          [] key = "medium energy" ->
                <<"Reply to one email", "Prep a simple meal", "Walk outside for 10 minutes">>
          [] key = "high energy" ->
                <<"Deep clean a surface", "Study sprint (45 min)", "Move your body with music">>]

\* dict[key]: the value returned, or the KeyError raised
getitem(dict, key) ==
    IF key \in DOMAIN dict
    THEN [returned |-> Some(dict[key]), raised |-> None]
    ELSE [returned |-> None, raised |-> <<"KeyError", key>>]

energy_task_suggestions(energy) ==
    IF energy <= 3 THEN getitem(ENERGY_TASK_LIBRARY, "low priority")
    ELSE IF energy <= 7 THEN getitem(ENERGY_TASK_LIBRARY, "medium priority")
    ELSE getitem(ENERGY_TASK_LIBRARY, "high priority")

store_reflection(w, entry) ==
    [w EXCEPT !.st.reflections = Append(@, [timestamp |-> now, text |-> entry])]

mark_reentry_acknowledged(w) == [w EXCEPT !.st.reentry_acknowledged = TRUE]

(***************************************************************************)
(* No-shame re-entry (app.py)                                              *)
(*   Check-in timestamps count TicksPerDay ticks to the day.               *)
(***************************************************************************)
TicksPerDay == CheckInFetchLimit + 2

timedelta_days(days) == days * TicksPerDay

latest_check_in_timestamp(w) ==
    IF w.st.check_ins = <<>> THEN None
    ELSE Some(w.st.check_ins[Len(w.st.check_ins)].timestamp)

\* a re-entry test that counts a check-in of exactly three days ago as old
needs_no_shame_screen_from_three_days(w, clock) ==
    IF w.st.reentry_acknowledged THEN FALSE
    ELSE LET last == latest_check_in_timestamp(w)
         IN  IF last = None THEN TRUE
             ELSE clock - last[1] >= timedelta_days(3)

\* clock is datetime.now()
needs_no_shame_screen(w, clock) ==
    IF w.st.reentry_acknowledged THEN FALSE
    ELSE LET last == latest_check_in_timestamp(w)
         IN  IF last = None THEN TRUE
             ELSE clock - last[1] > timedelta_days(3)

ReentryToasts ==
    [button \in {"reentry_tiny", "reentry_regular", "reentry_challenge"} |->
        CASE button = "reentry_tiny" -> "Tiny is perfect. Maybe brush teeth or sip water."
          [] button = "reentry_regular" ->
                "Steady step logged. Maybe one admin thing or short walk."
          [] button = "reentry_challenge" ->
                "Spicy! Pick one bold move and we'll cheer for you."]

\* Home, Deep care: the three buttons exist only while the screen is needed
reentry_buttons(w, clock, pressed) ==
    IF needs_no_shame_screen(w, clock) /\ pressed \in DOMAIN ReentryToasts
    THEN [mark_reentry_acknowledged(w) EXCEPT !.msgs = @ \cup {ReentryToasts[pressed]}]
    ELSE w

(***************************************************************************)
(* Calendar events and their checklists (app.py, db.py)                    *)
(*   A datetime is a number of minutes, a time of day is [hour, minute].   *)
(***************************************************************************)
MinutesPerDay == 24 * 60

\* datetime.combine(date, time)
combine(date, value) == date * MinutesPerDay + value.hour * 60 + value.minute

(***************************************************************************)
(* Appointment reminders (app.py: appointment_reminders)                   *)
(*   A reminder is [prompt, label, due]: which of the three f-strings it   *)
(*   is, the category it names and, for the nudge, the due date it names.  *)
(***************************************************************************)
ReminderTemplates == <<[label |-> "Dental Cleaning", cadence |-> 180],
                       [label |-> "Therapy", cadence |-> 7],
                       [label |-> "Annual Physical", cadence |-> 365]>>

\* datetime.date()
date_part(instant) == instant \div MinutesPerDay

NoDue == 0 - 1

\* a reminder engine that is ready only after the due date has passed
reminder_for_after_due(appts, template, today) ==
    LET dates == {date_part(appts[i].date) :
                    i \in {k \in 1..Len(appts) : appts[k].category = template.label}}
    IN  IF dates = {} THEN [prompt |-> "not logged yet", label |-> template.label, due |-> NoDue]
        ELSE LET due == Max(dates) + template.cadence
             IN  IF due < today
                 THEN [prompt |-> "ready to be scheduled again", label |-> template.label,
                       due |-> NoDue]
                 ELSE [prompt |-> "feels good around", label |-> template.label, due |-> due]

\* one pass of the loop over the templates
reminder_for(appts, template, today) ==
    LET dates == {date_part(appts[i].date) :
                    i \in {k \in 1..Len(appts) : appts[k].category = template.label}}
    IN  IF dates = {} THEN [prompt |-> "not logged yet", label |-> template.label, due |-> NoDue]
        ELSE LET due == Max(dates) + template.cadence
             IN  IF due <= today
                 THEN [prompt |-> "ready to be scheduled again", label |-> template.label,
                       due |-> NoDue]
                 ELSE [prompt |-> "feels good around", label |-> template.label, due |-> due]

\* today is datetime.now().date()
appointment_reminders(appts, today) ==
    [i \in 1..Len(ReminderTemplates) |-> reminder_for(appts, ReminderTemplates[i], today)]

(***************************************************************************)
(* Appointments, symptoms and devices (app.py, db.py)                      *)
(***************************************************************************)
insert_appointment(table, user_id, payload) ==
    Append(table, [id |-> Len(table) + 1, user_id |-> user_id,
                   title_encrypted |-> payload.title_encrypted, category |-> payload.category,
                   provider_encrypted |-> payload.provider_encrypted, date |-> payload.date,
                   notes_encrypted |-> payload.notes_encrypted, created_at |-> isoformat(now)])

insert_symptom(table, user_id, payload) ==
    Append(table, [id |-> Len(table) + 1, user_id |-> user_id,
                   symptom_encrypted |-> payload.symptom_encrypted, severity |-> payload.severity,
                   notes_encrypted |-> payload.notes_encrypted, date |-> payload.date,
                   created_at |-> isoformat(now)])

insert_device(table, user_id, label, expo_token) ==
    Append(table, [id |-> Len(table) + 1, user_id |-> user_id, label |-> label,
                   expo_token |-> expo_token, created_at |-> isoformat(now)])

add_appointment(w, entry) ==
    IF ~Truthy(w.st.user) \/ ~Truthy(w.st.crypto_key)
    THEN [w EXCEPT !.msgs = @ \cup {"Please sign in to save appointments."}]
    ELSE
        LET key == w.st.crypto_key[1]
            payload == [title_encrypted |-> encrypt_text(entry.title, key),
                        category |-> entry.category,
                        provider_encrypted |-> encrypt_text(entry.provider, key),
                        date |-> isoformat(entry.date),
                        notes_encrypted |-> encrypt_text(entry.notes, key)]
        IN  load_user_data(
                [w EXCEPT !.appointments = insert_appointment(@, w.st.user[1].id, payload),
                          !.st.data_loaded = FALSE])

add_symptom(w, entry) ==
    IF ~Truthy(w.st.user) \/ ~Truthy(w.st.crypto_key)
    THEN [w EXCEPT !.msgs = @ \cup {"Please sign in to track symptoms."}]
    ELSE
        LET key == w.st.crypto_key[1]
            payload == [symptom_encrypted |-> encrypt_text(entry.symptom, key),
                        severity |-> entry.severity,
                        notes_encrypted |-> encrypt_text(entry.notes, key),
                        date |-> isoformat(entry.date)]
        IN  load_user_data(
                [w EXCEPT !.symptoms = insert_symptom(@, w.st.user[1].id, payload),
                          !.st.data_loaded = FALSE])

add_device(w, label, token) ==
    IF ~Truthy(w.st.user) THEN w
    ELSE load_user_data(
            [w EXCEPT !.devices = insert_device(@, w.st.user[1].id, label, token),
                      !.st.data_loaded = FALSE])

\* Health planner, "Add to planner"
appointment_form(w, title, category, provider, date, notes) ==
    IF Truthy(title)
    THEN [add_appointment(w, [title |-> title, category |-> category, provider |-> provider,
                              date |-> combine(date, [hour |-> 0, minute |-> 0]),
                              notes |-> notes])
          EXCEPT !.msgs = @ \cup {"Added. Future you sends a hug."}]
    ELSE w

\* Health planner, "Log entry"
symptom_form(w, symptom, severity, detail, symptom_date) ==
    IF Truthy(symptom)
    THEN [add_symptom(w, [symptom |-> symptom, severity |-> severity, notes |-> detail,
                          date |-> combine(symptom_date, [hour |-> 0, minute |-> 0])])
          EXCEPT !.msgs = @ \cup {"Saved. Proud of you for tracking the messy stuff."}]
    ELSE w

\* Reminder dispatch, "Save device"
device_form(w, label, token) ==
    IF token # ""
    THEN [add_device(w, label, token) EXCEPT !.msgs = @ \cup {"Device saved."}]
    ELSE w

\* a conversion that wraps past midnight instead of stopping at 23:59
minutes_to_time_value_wrapping(total_minutes) ==
    [hour |-> (total_minutes \div 60) % 24, minute |-> total_minutes % 60]

minutes_from_time_value(value) == value.hour * 60 + value.minute

minutes_to_time_value(total_minutes) ==
    LET clamped == Max({0, Min({total_minutes, 24 * 60 - 1})})
    IN  [hour |-> Min({clamped \div 60, 23}), minute |-> clamped % 60]

\* a check that lets an empty time window through
window_rejected_only_if_reversed(start_dt, end_dt) == end_dt < start_dt

\* `if end_dt <= start_dt` of the create, edit and drag handlers
window_rejected(start_dt, end_dt) == end_dt <= start_dt

RECURSIVE build_tasks_done_reset(_, _, _)
\* a re-diff that keeps the id of a matching seed task and forgets its tick
build_tasks_done_reset(lines, seed, drawn) ==
    IF lines = <<>> THEN [tasks |-> <<>>, uuids |-> drawn]
    ELSE
        LET line == Head(lines)
            existing == {i \in 1..Len(seed) : seed[i].label = line}
        IN  IF existing # {}
            THEN LET prior == seed[Max(existing)]
                     rest == build_tasks_done_reset(Tail(lines), seed, drawn)
                 IN  [tasks |-> <<[id |-> prior.id, label |-> prior.label, done |-> FALSE,
                                   linked_task_id |-> prior.linked_task_id]>> \o rest.tasks,
                      uuids |-> rest.uuids]
            ELSE LET rest == build_tasks_done_reset(Tail(lines), seed, drawn + 1)
                 IN  [tasks |-> <<[id |-> [uuid |-> drawn + 1], label |-> line, done |-> FALSE,
                                   linked_task_id |-> None]>> \o rest.tasks,
                      uuids |-> rest.uuids]

RECURSIVE build_tasks(_, _, _)
\* the loop of build_tasks_from_text; `existing` maps a label to the last seed task carrying it
build_tasks(lines, seed, drawn) ==
    IF lines = <<>> THEN [tasks |-> <<>>, uuids |-> drawn]
    ELSE
        LET line == Head(lines)
            existing == {i \in 1..Len(seed) : seed[i].label = line}
        IN  IF existing # {}
            THEN LET prior == seed[Max(existing)]
                     rest == build_tasks(Tail(lines), seed, drawn)
                 IN  [tasks |-> <<[id |-> prior.id, label |-> prior.label, done |-> prior.done,
                                   linked_task_id |-> prior.linked_task_id]>> \o rest.tasks,
                      uuids |-> rest.uuids]
            ELSE LET rest == build_tasks(Tail(lines), seed, drawn + 1)
                 IN  [tasks |-> <<[id |-> [uuid |-> drawn + 1], label |-> line, done |-> FALSE,
                                   linked_task_id |-> None]>> \o rest.tasks,
                      uuids |-> rest.uuids]

\* text is the sequence of the lines typed; the result carries the uuid4 draws made
build_tasks_from_text(text, seed, drawn) ==
    LET stripped == [i \in 1..Len(text) |-> Strip(text[i])]
        lines == SelectSeq(stripped, LAMBDA line : line # <<>>)
    IN  build_tasks(lines, seed, drawn)

insert_calendar_event(table, event_id, user_id, payload, created_at) ==
    Append(table,
           [id |-> event_id, user_id |-> user_id,
            title_encrypted |-> payload.title_encrypted,
            location_encrypted |-> payload.location_encrypted,
            description_encrypted |-> payload.description_encrypted,
            tag |-> payload.tag, color |-> payload.color,
            start_at |-> payload.start_at, end_at |-> payload.end_at,
            tasks_json |-> payload.tasks_json, created_at |-> created_at])

delete_calendar_event(table, event_id, user_id) ==
    SelectSeq(table, LAMBDA row : ~(row.id = event_id /\ row.user_id = user_id))

\* db.update_calendar_event
db_update_calendar_event(table, event_id, user_id, payload) ==
    [i \in 1..Len(table) |->
        IF table[i].id = event_id /\ table[i].user_id = user_id
        THEN [table[i] EXCEPT !.title_encrypted = payload.title_encrypted,
                              !.location_encrypted = payload.location_encrypted,
                              !.description_encrypted = payload.description_encrypted,
                              !.tag = payload.tag, !.color = payload.color,
                              !.start_at = payload.start_at, !.end_at = payload.end_at,
                              !.tasks_json = payload.tasks_json]
        ELSE table[i]]

\* an update that keeps every tick already stored instead of replacing the list
update_calendar_event_tasks_merged(table, event_id, user_id, tasks_json) ==
    [i \in 1..Len(table) |->
        IF table[i].id = event_id /\ table[i].user_id = user_id
        THEN LET stored == json_loads(table[i].tasks_json)
                 written == json_loads(tasks_json)
             IN  [table[i] EXCEPT !.tasks_json =
                    IF Len(stored) # Len(written) THEN tasks_json
                    ELSE json_dumps([k \in 1..Len(written) |->
                            [written[k] EXCEPT !.done = @ \/ stored[k].done]])]
        ELSE table[i]]

update_calendar_event_tasks(table, event_id, user_id, tasks_json) ==
    [i \in 1..Len(table) |->
        IF table[i].id = event_id /\ table[i].user_id = user_id
        THEN [table[i] EXCEPT !.tasks_json = tasks_json]
        ELSE table[i]]

\* an update of the done flag that leaves the completion time as stored
update_personal_task_done_flag_only(table, task_id, user_id, done, completed_at) ==
    [i \in 1..Len(table) |->
        IF table[i].id = task_id /\ table[i].user_id = user_id
        THEN [table[i] EXCEPT !.done = done]
        ELSE table[i]]

update_personal_task_done(table, task_id, user_id, done, completed_at) ==
    [i \in 1..Len(table) |->
        IF table[i].id = task_id /\ table[i].user_id = user_id
        THEN [table[i] EXCEPT !.done = done, !.completed_at = completed_at]
        ELSE table[i]]

\* a delete of the done rows of every user
delete_completed_personal_tasks_any_user(table, user_id) ==
    SelectSeq(table, LAMBDA row : ~row.done)

delete_completed_personal_tasks(table, user_id) ==
    SelectSeq(table, LAMBDA row : ~(row.user_id = user_id /\ row.done))

event_payload(entry, key) ==
    [title_encrypted |-> encrypt_text(entry.title, key),
     location_encrypted |-> encrypt_text(entry.location, key),
     description_encrypted |-> encrypt_text(entry.notes, key),
     tag |-> entry.tag, color |-> entry.color,
     start_at |-> isoformat(entry.start), end_at |-> isoformat(entry.end),
     tasks_json |-> json_dumps(entry.tasks)]

add_calendar_event(w, entry) ==
    IF ~Truthy(w.st.user) \/ ~Truthy(w.st.crypto_key)
    THEN [w EXCEPT !.msgs = @ \cup {"Please sign in to save calendar events."}]
    ELSE load_user_data(
            [w EXCEPT !.event_seq = @ + 1,
                      !.calendar_events =
                          insert_calendar_event(@, w.event_seq + 1, w.st.user[1].id,
                                                event_payload(entry, w.st.crypto_key[1]),
                                                isoformat(now)),
                      !.st.data_loaded = FALSE])

remove_calendar_event(w, event_id) ==
    IF ~Truthy(w.st.user) THEN w
    ELSE load_user_data(
            [w EXCEPT !.calendar_events = delete_calendar_event(@, event_id, w.st.user[1].id),
                      !.st.data_loaded = FALSE])

update_calendar_event(w, entry_id, entry) ==
    IF ~Truthy(w.st.user) \/ ~Truthy(w.st.crypto_key)
    THEN [w EXCEPT !.msgs = @ \cup {"Please sign in to edit calendar events."}]
    ELSE load_user_data(
            [w EXCEPT !.calendar_events =
                          db_update_calendar_event(@, entry_id, w.st.user[1].id,
                                                   event_payload(entry, w.st.crypto_key[1])),
                      !.st.data_loaded = FALSE])

\* the index of the first element with this id, 0 when there is none
FirstIndex(items, id) ==
    LET hits == {i \in 1..Len(items) : items[i].id = id}
    IN  IF hits = {} THEN 0 ELSE Min(hits)

find_calendar_event(w, event_id) == FirstIndex(w.st.calendar_events, event_id)

\* a completion toggle that stamps a completion time whatever the new value is
toggle_task_completion_always_stamped(w, task_id, done) ==
    LET at == FirstIndex(w.st.tasks, task_id)
    IN  IF at = 0 THEN w
        ELSE [w EXCEPT !.st.tasks[at].done = done,
                       !.st.tasks[at].completed_at = isoformat(now),
                       !.personal_tasks =
                            IF Truthy(w.st.user)
                            THEN update_personal_task_done(@, task_id, w.st.user[1].id, done,
                                                           isoformat(now))
                            ELSE @]

\* ids here are uuid4 values, never the "placeholder-" ids of the suggestion cards
toggle_task_completion(w, task_id, done) ==
    LET at == FirstIndex(w.st.tasks, task_id)
        completed_at == IF done THEN isoformat(now) ELSE None
    IN  IF at = 0 THEN w
        ELSE [w EXCEPT !.st.tasks[at].done = done,
                       !.st.tasks[at].completed_at = completed_at,
                       !.personal_tasks =
                            IF Truthy(w.st.user)
                            THEN update_personal_task_done(@, task_id, w.st.user[1].id, done,
                                                           completed_at)
                            ELSE @]

update_event_task_completion(w, event_id, task_id, done) ==
    LET at == find_calendar_event(w, event_id)
    IN  IF ~Truthy(w.st.user) \/ at = 0 THEN w
        ELSE
        LET tasks == w.st.calendar_events[at].tasks
            hit == FirstIndex(tasks, task_id)
            linked_personal == IF hit = 0 THEN None ELSE tasks[hit].linked_task_id
            toggled == IF hit = 0 THEN tasks ELSE [tasks EXCEPT ![hit].done = done]
            w1 == [w EXCEPT !.st.calendar_events[at].tasks = toggled,
                            !.calendar_events =
                                update_calendar_event_tasks(@, event_id, w.st.user[1].id,
                                                            json_dumps(toggled))]
        IN  IF Truthy(linked_personal) THEN toggle_task_completion(w1, linked_personal, done)
            ELSE w1

toggle_event_task_state(w, event_id, task_id, state) ==
    update_event_task_completion(w, event_id, task_id, state)

\* a link that is kept in the session only
link_event_task_to_personal_unsaved(w, event_id, task_id, personal_task_id) ==
    LET at == find_calendar_event(w, event_id)
    IN  IF at = 0 THEN w
        ELSE
        LET tasks == w.st.calendar_events[at].tasks
            hit == FirstIndex(tasks, task_id)
        IN  [w EXCEPT !.st.calendar_events[at].tasks =
                          IF hit = 0 THEN tasks
                          ELSE [tasks EXCEPT ![hit].linked_task_id = personal_task_id]]

link_event_task_to_personal(w, event_id, task_id, personal_task_id) ==
    LET at == find_calendar_event(w, event_id)
    IN  IF at = 0 THEN w
        ELSE
        LET tasks == w.st.calendar_events[at].tasks
            hit == FirstIndex(tasks, task_id)
            linked == IF hit = 0 THEN tasks
                      ELSE [tasks EXCEPT ![hit].linked_task_id = personal_task_id]
        IN  [w EXCEPT !.st.calendar_events[at].tasks = linked,
                      !.calendar_events =
                          IF Truthy(w.st.user)
                          THEN update_calendar_event_tasks(@, event_id, w.st.user[1].id,
                                                           json_dumps(linked))
                          ELSE @]

RECURSIVE sync_events_from(_, _, _, _)
\* the loop of sync_personal_task_to_events over the session's events, from index `at`
sync_events_from(w, at, personal_task_id, done) ==
    IF at > Len(w.st.calendar_events) THEN w
    ELSE
        LET event == w.st.calendar_events[at]
            updated == \E i \in 1..Len(event.tasks) : event.tasks[i].linked_task_id = personal_task_id
            tasks == [i \in 1..Len(event.tasks) |->
                        IF event.tasks[i].linked_task_id = personal_task_id
                        THEN [event.tasks[i] EXCEPT !.done = done]
                        ELSE event.tasks[i]]
            w1 == IF updated
                  THEN [w EXCEPT !.st.calendar_events[at].tasks = tasks,
                                 !.calendar_events =
                                     update_calendar_event_tasks(@, event.id, w.st.user[1].id,
                                                                 json_dumps(tasks))]
                  ELSE w
        IN  sync_events_from(w1, at + 1, personal_task_id, done)

\* a propagation that changes the session's copies and never writes them back
sync_personal_task_to_events_unsaved(w, personal_task_id, done) ==
    IF ~Truthy(w.st.user) THEN w
    ELSE
        LET events == w.st.calendar_events
            synced(tasks) == [i \in 1..Len(tasks) |->
                                IF tasks[i].linked_task_id = personal_task_id
                                THEN [tasks[i] EXCEPT !.done = done] ELSE tasks[i]]
        IN  [w EXCEPT !.st.calendar_events =
                [at \in 1..Len(events) |-> [events[at] EXCEPT !.tasks = synced(events[at].tasks)]]]

sync_personal_task_to_events(w, personal_task_id, done) ==
    IF ~Truthy(w.st.user) THEN w
    ELSE sync_events_from(w, 1, personal_task_id, done)

toggle_personal_task_state(w, task_id, state) ==
    sync_personal_task_to_events(toggle_task_completion(w, task_id, state), task_id, state)

clear_completed_tasks(w) ==
    IF ~Truthy(w.st.user) THEN w
    ELSE [w EXCEPT !.personal_tasks = delete_completed_personal_tasks(@, w.st.user[1].id),
                   !.st.tasks = SelectSeq(@, LAMBDA task : ~task.done)]

\* Calendar studio, Event desk: "Add to calendar"
calendar_event_form(w, title, date, start_time, end_time, tasks_raw) ==
    IF Strip(title) = <<>> THEN [w EXCEPT !.msgs = @ \cup {"Give the event a title first."}]
    ELSE
        LET start_dt == combine(date, start_time)
            end_dt == combine(date, end_time)
            built == build_tasks_from_text(tasks_raw, <<>>, w.uuids)
        IN  IF window_rejected(start_dt, end_dt)
            THEN [w EXCEPT !.msgs = @ \cup {"End time has to be after the start."}]
            ELSE [add_calendar_event(
                      [w EXCEPT !.uuids = built.uuids],
                      [title |-> Strip(title), location |-> <<>>, notes |-> <<>>,
                       tag |-> "Personal", color |-> "#AEBFA7",
                       start |-> start_dt, end |-> end_dt, tasks |-> built.tasks])
                  EXCEPT !.msgs = @ \cup {"Saved. It now lives on your Heartline calendar."}]

\* Calendar studio, Event desk: "Save changes" of the event's edit form
edit_event_form(w, event, date_edit, start_edit, end_edit, tasks_edit) ==
    LET start_dt == combine(date_edit, start_edit)
        end_dt == combine(date_edit, end_edit)
        built == build_tasks_from_text(tasks_edit, event.tasks, w.uuids)
    IN  IF window_rejected(start_dt, end_dt)
        THEN [w EXCEPT !.msgs = @ \cup {"End time has to be after the start."}]
        ELSE [update_calendar_event(
                  [w EXCEPT !.uuids = built.uuids], event.id,
                  [title |-> Strip(event.title), location |-> Strip(event.location),
                   notes |-> Strip(event.notes), tag |-> event.tag, color |-> event.color,
                   start |-> start_dt, end |-> end_dt, tasks |-> built.tasks])
              EXCEPT !.msgs = @ \cup {"Event updated."}]

\* Calendar studio, Event desk: "Delete event", then st.rerun()
delete_event_button(w, event) == main(remove_calendar_event(w, event.id))

\* Calendar studio, Quicklook: "Apply drag update"
apply_drag(w, selected_event, drag_date, drag_range) ==
    LET new_start == combine(drag_date, minutes_to_time_value(drag_range[1]))
        new_end == combine(drag_date,
                           minutes_to_time_value(Max({drag_range[1] + 15, drag_range[2]})))
    IN  IF window_rejected(new_start, new_end)
        THEN [w EXCEPT !.msgs = @ \cup {"Drag range must end after it starts."}]
        ELSE [update_calendar_event(
                  w, selected_event.id,
                  [title |-> selected_event.title, location |-> selected_event.location,
                   notes |-> selected_event.notes, tag |-> selected_event.tag,
                   color |-> selected_event.color,
                   start |-> new_start, end |-> new_end, tasks |-> selected_event.tasks])
              EXCEPT !.msgs = @ \cup {"Event moved. The list above reflects the new time."}]

\* Calendar studio, Checklists: "Push to personal list"
push_to_personal_list(w, event, task) ==
    LET personal_id == added_task_id(w)
        w1 == add_personal_task(w, task.label, "Tiny")
    IN  IF Truthy(personal_id)
        THEN [link_event_task_to_personal(w1, event.id, task.id, personal_id[1])
              EXCEPT !.msgs = @ \cup {"Linked to personal checklist."}]
        ELSE w1

\* Profile: "Clear completed tasks"
clear_completed_button(w) ==
    [clear_completed_tasks(w) EXCEPT !.msgs = @ \cup {"Checklist history reset."}]

(***************************************************************************)
(* Inputs                                                                  *)
(***************************************************************************)
EmailInputs == {<<"a">>, <<" ", "A">>, <<"b">>, <<" ">>}
LongPassword == <<"s", "e", "c", "r", "e", "t", "0", "1">>
OtherPassword == <<"s", "e", "c", "r", "e", "t", "0", "2">>
ShortPassword == <<"s", "e", "c", "r", "e", "t", "0">>
PasswordInputs == {LongPassword, OtherPassword, ShortPassword}
\* the create-account submissions tried: two valid ones, a differently written
\* duplicate, a blank email, a short password, a mismatched confirmation
RegisterInputs ==
    {[email |-> <<"a">>, password |-> LongPassword, confirm |-> LongPassword],
     [email |-> <<" ", "A">>, password |-> LongPassword, confirm |-> LongPassword],
     [email |-> <<"b">>, password |-> OtherPassword, confirm |-> OtherPassword],
     [email |-> <<" ">>, password |-> LongPassword, confirm |-> LongPassword],
     [email |-> <<"a">>, password |-> ShortPassword, confirm |-> ShortPassword],
     [email |-> <<"b">>, password |-> LongPassword, confirm |-> OtherPassword]}
\* a token value that remember_user_session never handed out
ForgedToken == 0 - 1
\* the instants the clock visits: a day after the start, the last valid day of a
\* token granted at the start, and the end of the run, which is past that day
ClockInstants == {1, TokenTTLDays, MaxNow}
TaskTitleInputs == {<<"m", "e", "d", "s">>, <<" ">>}
TitleInputs == {<<"t">>, <<" ">>}
DateInputs == {1, 2}
TimeInputs == {[hour |-> 9, minute |-> 0], [hour |-> 9, minute |-> 30], [hour |-> 10, minute |-> 0]}
\* checklists as typed, one element per line
ChecklistInputs == {<<<<"p">>>>, <<<<" ", "p">>, <<" ">>>>}
\* an edited checklist: the line kept, or typed twice
EditChecklistInputs == {<<<<"p">>>>, <<<<"p">>, <<"p">>>>}
\* the positions of the timeline slider: 0 to 24 * 60 - 15 in steps of 15
SliderValues == {15 * k : k \in 0..((24 * 60 - 15) \div 15)}
\* a range slider returns its two handles in order
IsSliderRange(range) ==
    range[1] \in SliderValues /\ range[2] \in SliderValues /\ range[1] <= range[2]
DragRangeInputs == {<<600, 660>>, <<1425, 1425>>}
PlannerSizes == {"Small", "Medium ", "Large"}

(***************************************************************************)
(* Actions                                                                 *)
(***************************************************************************)
World(s) ==
    [st |-> session_state[s], qp |-> query_params[s],
     users |-> users, session_tokens |-> session_tokens, check_ins |-> check_ins,
     appointments |-> appointments, symptoms |-> symptoms, devices |-> devices,
     calendar_events |-> calendar_events, personal_tasks |-> personal_tasks,
     rng |-> rng, uuids |-> uuids, event_seq |-> event_seq, msgs |-> {}]

Commit(s, w) ==
    /\ session_state' = [session_state EXCEPT ![s] = w.st]
    /\ query_params' = [query_params EXCEPT ![s] = w.qp]
    /\ users' = w.users
    /\ session_tokens' = w.session_tokens
    /\ check_ins' = w.check_ins
    /\ appointments' = w.appointments
    /\ symptoms' = w.symptoms
    /\ devices' = w.devices
    /\ calendar_events' = w.calendar_events
    /\ personal_tasks' = w.personal_tasks
    /\ rng' = w.rng
    /\ uuids' = w.uuids
    /\ event_seq' = w.event_seq
    /\ messages' = w.msgs
    /\ now' = now
    /\ issued' = issued \cup
            {[token |-> token, user_id |-> w.st.user[1].id, key |-> w.st.crypto_key[1],
              issued_at |-> now] :
                token \in {t \in (rng + 1)..w.rng : Truthy(w.st.user) /\ Truthy(w.st.crypto_key)}}
    /\ call' = call

Note(op, token) == last_step' = [op |-> op, token |-> token]

Authenticated(s) == Truthy(session_state[s].user)

\* the handler runs the actions commit, as functions of the current state
VisitResult(s, token) == main([World(s) EXCEPT !.st = init_state, !.qp = token])
LoginResult(s, email, password, remember_me) == auth_panel_login(World(s), email, password, remember_me)
RegisterResult(s, email, password, confirm, remember_new) ==
    auth_panel_register(World(s), "Sam", email, password, confirm, remember_new)
SignOutResult(s) == sign_out(World(s))

\* a browser opens the app's URL, possibly carrying ?session=<token>
Visit(s, token) ==
    /\ token \in {NoToken, ForgedToken} \cup 1..rng
    /\ Commit(s, VisitResult(s, token))
    /\ Note("visit", token)

Login(s, email, password, remember_me) ==
    /\ ~Authenticated(s)
    /\ remember_me => rng < MaxTokens
    /\ Commit(s, LoginResult(s, email, password, remember_me))
    /\ Note("login", NoToken)

Register(s, email, password, confirm, remember_new) ==
    /\ ~Authenticated(s)
    /\ Len(users) < MaxUsers
    /\ remember_new => rng < MaxTokens
    /\ Commit(s, RegisterResult(s, email, password, confirm, remember_new))
    /\ Note("register", NoToken)

SignOut(s) ==
    /\ Authenticated(s)
    /\ Commit(s, SignOutResult(s))
    /\ Note("sign_out", NoToken)

TourSave(s) ==
    /\ Authenticated(s)
    /\ session_state[s].tutorial_open
    /\ Commit(s, tour_on_save(main(World(s))))
    /\ Note("tour_save", NoToken)

TourClose(s) ==
    /\ Authenticated(s)
    /\ session_state[s].tutorial_open
    /\ Commit(s, tour_close(main(World(s))))
    /\ Note("tour_close", NoToken)

OpenTour(s) ==
    /\ Authenticated(s)
    /\ ~session_state[s].tutorial_open
    /\ Commit(s, open_tour(main(World(s))))
    /\ Note("open_tour", NoToken)

PlannerSaveTask(s, new_task, size) ==
    /\ Authenticated(s)
    /\ Len(personal_tasks) < MaxTasks
    /\ Commit(s, planner_save_task(main(World(s)), new_task, size))
    /\ Note("planner_save_task", NoToken)

SaveReflection(s) ==
    /\ Authenticated(s)
    /\ Len(session_state[s].reflections) < MaxReflections
    /\ Commit(s, store_reflection(main(World(s)), <<"o", "k">>))
    /\ Note("store_reflection", NoToken)

ReentryStep(s) ==
    /\ Authenticated(s)
    /\ ~session_state[s].reentry_acknowledged
    /\ Commit(s, mark_reentry_acknowledged(main(World(s))))
    /\ Note("reentry", NoToken)

Tick(instant) ==
    /\ now < instant
    /\ instant <= MaxNow
    /\ now' = instant
    /\ UNCHANGED <<users, session_tokens, check_ins, appointments, symptoms, devices,
                   calendar_events, personal_tasks, session_state, query_params,
                   rng, uuids, event_seq, messages, issued, last_step, call>>

\* no helper function has been applied on its own
NoCall == [fn |-> "none", args |-> <<>>, result |-> <<>>]

\* the state after construction: empty tables, anonymous browser sessions
InitWorld ==
    /\ users = <<>>
    /\ session_tokens = {}
    /\ check_ins = <<>>
    /\ appointments = <<>>
    /\ symptoms = <<>>
    /\ devices = <<>>
    /\ calendar_events = <<>>
    /\ personal_tasks = <<>>
    /\ session_state = [s \in Sessions |-> init_state]
    /\ query_params = [s \in Sessions |-> NoToken]
    /\ now = 0
    /\ rng = 0
    /\ uuids = 0
    /\ event_seq = 0
    /\ messages = {}
    /\ issued = {}
    /\ last_step = [op |-> "start", token |-> NoToken]

Init == InitWorld /\ call = NoCall

\* the browser sessions that act in the sign-in specifications
AuthSessions == {1}

VisitStep == \E s \in AuthSessions, token \in -1..MaxTokens : Visit(s, token)
LoginStep == \E s \in AuthSessions, email \in EmailInputs, password \in PasswordInputs,
                remember_me \in BOOLEAN : Login(s, email, password, remember_me)
RegisterStep == \E s \in AuthSessions, form \in RegisterInputs, remember_new \in BOOLEAN :
                        Register(s, form.email, form.password, form.confirm, remember_new)
SignOutStep == \E s \in AuthSessions : SignOut(s)
TourSaveStep == \E s \in AuthSessions : TourSave(s)
TourCloseStep == \E s \in AuthSessions : TourClose(s)
OpenTourStep == \E s \in AuthSessions : OpenTour(s)
PlannerSaveTaskStep == \E s \in AuthSessions, new_task \in TaskTitleInputs, size \in PlannerSizes :
                            PlannerSaveTask(s, new_task, size)
\* one task with the form's preselected size, enough for an account to own data
PlannerDefaultTaskStep == \E s \in AuthSessions : PlannerSaveTask(s, <<"m", "e", "d", "s">>, "Medium ")
SaveReflectionStep == \E s \in AuthSessions : SaveReflection(s)
ReentryStepStep == \E s \in AuthSessions : ReentryStep(s)
TickStep == \E instant \in ClockInstants : Tick(instant)

(***************************************************************************)
(* Spec: accounts, sign-in, remember-me tokens, sign-out, the clock.       *)
(***************************************************************************)
Next ==
    \/ VisitStep
    \/ LoginStep
    \/ RegisterStep
    \/ SignOutStep
    \/ PlannerDefaultTaskStep
    \/ TickStep

Spec == Init /\ [][Next]_vars

(***************************************************************************)
(* SpecTour: sign-in and the onboarding walkthrough.                       *)
(***************************************************************************)
NextTour ==
    \/ VisitStep
    \/ LoginStep
    \/ RegisterStep
    \/ SignOutStep
    \/ TourSaveStep
    \/ TourCloseStep
    \/ OpenTourStep

SpecTour == Init /\ [][NextTour]_vars

\* one browser session's life: notes and acknowledgements made while signed in
NextSession ==
    \/ RegisterStep
    \/ LoginStep
    \/ SignOutStep
    \/ PlannerDefaultTaskStep
    \/ SaveReflectionStep
    \/ ReentryStepStep

SpecSession == Init /\ [][NextSession]_vars

(***************************************************************************)
(* Calendar studio, checklist and profile actions                          *)
(***************************************************************************)
EventAt(s, at) == session_state[s].calendar_events[at]

CreateEventResult(s, title, date, start_time, end_time, tasks_raw) ==
    calendar_event_form(main(World(s)), title, date, start_time, end_time, tasks_raw)
EditEventResult(s, at, date_edit, start_edit, end_edit, tasks_edit) ==
    edit_event_form(main(World(s)), EventAt(s, at), date_edit, start_edit, end_edit, tasks_edit)
DragResult(s, at, drag_date, drag_range) ==
    apply_drag(main(World(s)), EventAt(s, at), drag_date, drag_range)
ToggleEventTaskResult(s, at, task_id, state) ==
    toggle_event_task_state(main(World(s)), EventAt(s, at).id, task_id, state)
TogglePersonalTaskResult(s, task_id, state) ==
    toggle_personal_task_state(main(World(s)), task_id, state)

CreateEvent(s, title, date, start_time, end_time, tasks_raw) ==
    /\ Authenticated(s)
    /\ event_seq < MaxEvents
    /\ LET w == CreateEventResult(s, title, date, start_time, end_time, tasks_raw)
       IN  w.uuids <= MaxUuids /\ Commit(s, w)
    /\ Note("create_event", NoToken)

EditEvent(s, at, date_edit, start_edit, end_edit, tasks_edit) ==
    /\ Authenticated(s)
    /\ at \in 1..Len(session_state[s].calendar_events)
    /\ LET w == EditEventResult(s, at, date_edit, start_edit, end_edit, tasks_edit)
       IN  w.uuids <= MaxUuids /\ Commit(s, w)
    /\ Note("edit_event", NoToken)

DeleteEvent(s, at) ==
    /\ Authenticated(s)
    /\ at \in 1..Len(session_state[s].calendar_events)
    /\ Commit(s, delete_event_button(main(World(s)), EventAt(s, at)))
    /\ Note("delete_event", NoToken)

DragEvent(s, at, drag_date, drag_range) ==
    /\ Authenticated(s)
    /\ at \in 1..Len(session_state[s].calendar_events)
    /\ IsSliderRange(drag_range)
    /\ Commit(s, DragResult(s, at, drag_date, drag_range))
    /\ Note("apply_drag", NoToken)

\* the checkbox and the button of an event task exist once per widget key,
\* that is for the first task of the event with a given id
ToggleEventTask(s, at, i) ==
    /\ Authenticated(s)
    /\ at \in 1..Len(session_state[s].calendar_events)
    /\ i \in 1..Len(EventAt(s, at).tasks)
    /\ FirstIndex(EventAt(s, at).tasks, EventAt(s, at).tasks[i].id) = i
    /\ Commit(s, ToggleEventTaskResult(s, at, EventAt(s, at).tasks[i].id,
                                       ~EventAt(s, at).tasks[i].done))
    /\ Note("toggle_event_task", NoToken)

PushToPersonal(s, at, i) ==
    /\ Authenticated(s)
    /\ at \in 1..Len(session_state[s].calendar_events)
    /\ i \in 1..Len(EventAt(s, at).tasks)
    /\ FirstIndex(EventAt(s, at).tasks, EventAt(s, at).tasks[i].id) = i
    /\ Len(personal_tasks) < MaxLinkedTasks
    /\ uuids < MaxUuids
    /\ Commit(s, push_to_personal_list(main(World(s)), EventAt(s, at), EventAt(s, at).tasks[i]))
    /\ Note("push_to_personal_list", NoToken)

\* the Home checklist shows a checkbox, unchecked, for every task that is not done
TogglePersonalTask(s, k) ==
    /\ Authenticated(s)
    /\ k \in 1..Len(session_state[s].tasks)
    /\ ~session_state[s].tasks[k].done
    /\ Commit(s, TogglePersonalTaskResult(s, session_state[s].tasks[k].id, TRUE))
    /\ Note("toggle_personal_task", NoToken)

ClearCompleted(s) ==
    /\ Authenticated(s)
    /\ \E k \in 1..Len(session_state[s].tasks) : session_state[s].tasks[k].done
    /\ Commit(s, clear_completed_button(main(World(s))))
    /\ Note("clear_completed_tasks", NoToken)

\* the browser session that acts in the calendar specifications
CalendarSessions == {1}

RegisterOwnerStep ==
    \E s \in CalendarSessions : Register(s, <<"a">>, LongPassword, LongPassword, FALSE)
CreateEventStep ==
    \E s \in CalendarSessions, title \in TitleInputs, start_time \in TimeInputs,
       end_time \in TimeInputs : CreateEvent(s, title, 1, start_time, end_time, <<>>)
EditEventStep ==
    \E s \in CalendarSessions, at \in 1..MaxEvents, date_edit \in DateInputs,
       start_edit \in TimeInputs, end_edit \in TimeInputs :
        EditEvent(s, at, date_edit, start_edit, end_edit, <<>>)
DeleteEventStep == \E s \in CalendarSessions, at \in 1..MaxEvents : DeleteEvent(s, at)
DragEventStep ==
    \E s \in CalendarSessions, at \in 1..MaxEvents, drag_range \in DragRangeInputs :
        DragEvent(s, at, 1, drag_range)

\* events without checklists: their times under create, edit, drag and delete
NextEvents ==
    \/ RegisterOwnerStep
    \/ CreateEventStep
    \/ EditEventStep
    \/ DeleteEventStep
    \/ DragEventStep

SpecEvents == Init /\ [][NextEvents]_vars

NineToTen == <<[hour |-> 9, minute |-> 0], [hour |-> 10, minute |-> 0]>>

CreateChecklistEventStep ==
    \E s \in CalendarSessions, tasks_raw \in ChecklistInputs :
        CreateEvent(s, <<"t">>, 1, NineToTen[1], NineToTen[2], tasks_raw)
EditChecklistStep ==
    \E s \in CalendarSessions, at \in 1..MaxEvents, tasks_edit \in EditChecklistInputs :
        EditEvent(s, at, 1, NineToTen[1], NineToTen[2], tasks_edit)
ToggleEventTaskStep ==
    \E s \in CalendarSessions, at \in 1..MaxEvents, i \in 1..MaxUuids : ToggleEventTask(s, at, i)
PushToPersonalStep ==
    \E s \in CalendarSessions, at \in 1..MaxEvents, i \in 1..MaxUuids : PushToPersonal(s, at, i)
TogglePersonalTaskStep ==
    \E s \in CalendarSessions, k \in 1..MaxLinkedTasks : TogglePersonalTask(s, k)
ClearCompletedStep == \E s \in CalendarSessions : ClearCompleted(s)

\* events with checklists whose items are pushed to the personal list and ticked
NextChecklist ==
    \/ RegisterOwnerStep
    \/ CreateChecklistEventStep
    \/ EditChecklistStep
    \/ ToggleEventTaskStep
    \/ PushToPersonalStep
    \/ TogglePersonalTaskStep
    \/ ClearCompletedStep

SpecChecklist == Init /\ [][NextChecklist]_vars

\* one event moved along the whole timeline
CreateDragTargetStep ==
    \E s \in CalendarSessions :
        /\ event_seq = 0
        /\ CreateEvent(s, <<"t">>, 1, [hour |-> 9, minute |-> 0], [hour |-> 10, minute |-> 0], <<>>)
DragAlongStep ==
    \E s \in CalendarSessions, drag_date \in DateInputs, lo \in SliderValues, width \in {0, 15} :
        DragEvent(s, 1, drag_date, <<lo, lo + width>>)

NextDrag ==
    \/ RegisterOwnerStep
    \/ CreateDragTargetStep
    \/ DragAlongStep

SpecDrag == Init /\ [][NextDrag]_vars

(***************************************************************************)
(* SpecTasks: the personal checklist, filled from the Home planner and     *)
(* from event checklists, ticked from both sides and cleared.              *)
(***************************************************************************)
TASK_SIZES == {"Tiny", "Medium", "Big"}

PlannerTaskStep ==
    \E s \in CalendarSessions, new_task \in TaskTitleInputs, size \in PlannerSizes :
        uuids < MaxUuids /\ PlannerSaveTask(s, new_task, size)

NextTasks ==
    \/ RegisterOwnerStep
    \/ PlannerTaskStep
    \/ CreateChecklistEventStep
    \/ PushToPersonalStep
    \/ ToggleEventTaskStep
    \/ TogglePersonalTaskStep
    \/ ClearCompletedStep

SpecTasks == Init /\ [][NextTasks]_vars

(***************************************************************************)
(* SpecTodayThree: today_three_tasks applied to task lists.                *)
(***************************************************************************)
MaxListedTasks == 3

\* every variable but call
world_vars == <<users, session_tokens, check_ins, appointments, symptoms, devices,
                calendar_events, personal_tasks, session_state, query_params,
                now, rng, uuids, event_seq, messages, issued, last_step>>

\* the sizes a stored task can carry: those of TASK_SIZES and the planner's own
ListedSizes == TASK_SIZES \cup PlannerSizes

\* task lists in creation order, of every mix of sizes and done flags
TaskListInputs ==
    UNION {{[k \in 1..n |->
                [id |-> uuid4(k), title |-> <<"t">>, size |-> sizes[k], done |-> dones[k],
                 created_at |-> isoformat(k),
                 completed_at |-> IF dones[k] THEN isoformat(k) ELSE None]] :
            sizes \in [1..n -> ListedSizes], dones \in [1..n -> BOOLEAN]} :
           n \in 0..MaxListedTasks}

InitTodayThree ==
    /\ InitWorld
    /\ call \in {[fn |-> "input", args |-> tasks, result |-> <<>>] : tasks \in TaskListInputs}

TodayThreeStep ==
    /\ call.fn = "input"
    /\ call' = [fn |-> "today_three_tasks", args |-> call.args,
                result |-> today_three_tasks(call.args)]
    /\ UNCHANGED world_vars

NextTodayThree == TodayThreeStep

SpecTodayThree == InitTodayThree /\ [][NextTodayThree]_vars

(***************************************************************************)
(* SpecClear: two accounts, each in its own browser session, add tasks on  *)
(* the Home planner, tick them and clear the completed ones.               *)
(***************************************************************************)
MaxOwnedTasks == 3

\* the account each browser session registers
AccountOf == <<<<"a">>, <<"b">>>>

RegisterAccountStep ==
    \E s \in Sessions : Register(s, AccountOf[s], LongPassword, LongPassword, FALSE)

AddTask(s, new_task, size) ==
    /\ Authenticated(s)
    /\ Len(personal_tasks) < MaxOwnedTasks
    /\ uuids < MaxUuids
    /\ Commit(s, planner_save_task(main(World(s)), new_task, size))
    /\ Note("planner_save_task", NoToken)

AddTaskStep == \E s \in Sessions : AddTask(s, <<"m", "e", "d", "s">>, "Medium ")
TickTaskStep == \E s \in Sessions, k \in 1..MaxOwnedTasks : TogglePersonalTask(s, k)
ClearTasksStep == \E s \in Sessions : ClearCompleted(s)

NextClear ==
    \/ RegisterAccountStep
    \/ AddTaskStep
    \/ TickTaskStep
    \/ ClearTasksStep

SpecClear == Init /\ [][NextClear]_vars

(***************************************************************************)
(* SpecEnergy: check-ins set the energy, the Check-in tab lists the        *)
(* suggestions for it.                                                     *)
(***************************************************************************)
MaxEnergyCheckIns == 2

\* the positions of the "Body battery" slider
EnergyInputs == 0..10

\* datetime.now() at a check-in: later than at every check-in made before
CheckInClock == now * (CheckInFetchLimit + 2) + Len(check_ins)

CheckIn(s, mood, energy, schedule) ==
    /\ Authenticated(s)
    /\ Commit(s, check_in_home(main(World(s)), CheckInClock, mood, energy, schedule, <<"o", "k">>))
    /\ Note("check_in_home", NoToken)

\* the Check-in tab is rendered: energy_task_suggestions(st.session_state.latest_energy)
RenderSuggestions(s) ==
    /\ Authenticated(s)
    /\ call' = [fn |-> "energy_task_suggestions", args |-> session_state[s].latest_energy,
                result |-> energy_task_suggestions(session_state[s].latest_energy)]
    /\ UNCHANGED world_vars

EnergyCheckInStep ==
    \E s \in CalendarSessions, energy \in EnergyInputs :
        Len(check_ins) < MaxEnergyCheckIns /\ CheckIn(s, energy, energy, "Day")
RenderSuggestionsStep == \E s \in CalendarSessions : RenderSuggestions(s)

NextEnergy ==
    \/ RegisterOwnerStep
    \/ EnergyCheckInStep
    \/ RenderSuggestionsStep

SpecEnergy == Init /\ [][NextEnergy]_vars

(***************************************************************************)
(* SpecCheckIns: one account logs check-ins until it has one more than     *)
(* fetch_check_ins returns, signing out and in again along the way.        *)
(***************************************************************************)
MaxCheckIns == CheckInFetchLimit + 1

\* the n-th check-in carries an energy and a rhythm that differ from those of
\* the check-ins next to it
LogCheckInStep ==
    \E s \in CalendarSessions :
        /\ Len(check_ins) < MaxCheckIns
        /\ CheckIn(s, 5, Len(check_ins) % 11, SCHEDULES[(Len(check_ins) % 3) + 1])
LeaveStep == \E s \in CalendarSessions : SignOut(s)
ReturnStep == \E s \in CalendarSessions : Login(s, <<"a">>, LongPassword, FALSE)

NextCheckIns ==
    \/ RegisterOwnerStep
    \/ LogCheckInStep
    \/ LeaveStep
    \/ ReturnStep

SpecCheckIns == Init /\ [][NextCheckIns]_vars

(***************************************************************************)
(* SpecProfile: one account saves its profile details, signs out and in.   *)
(***************************************************************************)
\* year, month, day as the three number inputs allow them: real dates, and
\* days that the month does not have
BirthdayInputs == {<<2000, 1, 15>>, <<2000, 2, 29>>, <<2000, 2, 30>>, <<2001, 2, 29>>,
                   <<1900, 2, 29>>, <<1999, 4, 31>>}
ZodiacInputs == {[sign |-> "Aries", dates |-> "Mar 21-Apr 19"],
                 [sign |-> "Pisces", dates |-> "Feb 19-Mar 20"]}
NameInputs == {<<>>, <<" ", "S", "a", "l">>}

SaveProfileResult(s, preferred_name, birthday, zodiac_choice, theme_choice) ==
    profile_details_form(main(World(s)), preferred_name, birthday[1], birthday[2], birthday[3],
                         zodiac_choice, <<"h", "i", " ">>, theme_choice)

SaveProfile(s, preferred_name, birthday, zodiac_choice, theme_choice) ==
    /\ Authenticated(s)
    /\ Commit(s, SaveProfileResult(s, preferred_name, birthday, zodiac_choice, theme_choice))
    /\ Note("profile_details_form", NoToken)

SaveProfileStep ==
    \E s \in CalendarSessions, preferred_name \in NameInputs, birthday \in BirthdayInputs,
       zodiac_choice \in ZodiacInputs, theme_choice \in {"coquette", "cloud"} :
        SaveProfile(s, preferred_name, birthday, zodiac_choice, theme_choice)

NextProfile ==
    \/ RegisterOwnerStep
    \/ SaveProfileStep
    \/ LeaveStep
    \/ ReturnStep

SpecProfile == Init /\ [][NextProfile]_vars

(***************************************************************************)
(* Two accounts, each in its own browser session: account "b" (session 2)  *)
(* fills every table with rows of its own, then account "a" (session 1)    *)
(* registers and uses every page that writes.                              *)
(***************************************************************************)
OwnerSession == 1
OtherSession == 2

\* the stored rows of a table that belong to the account signed in in session s
Has(table, s) == Authenticated(s) /\ OwnedBy(table, session_state[s].user[1].id) # <<>>

ProfileSaved(s) ==
    /\ Authenticated(s)
    /\ \E i \in 1..Len(users) : users[i].id = session_state[s].user[1].id /\ users[i].birthday # NULL

AddAppointment(s, title, date) ==
    /\ Authenticated(s)
    /\ Commit(s, appointment_form(main(World(s)), title, "Therapy", <<"d", "r">>, date, <<>>))
    /\ Note("appointment_form", NoToken)

AddSymptom(s, symptom, severity, date) ==
    /\ Authenticated(s)
    /\ Commit(s, symptom_form(main(World(s)), symptom, severity, <<>>, date))
    /\ Note("symptom_form", NoToken)

AddDevice(s, label, token) ==
    /\ Authenticated(s)
    /\ Commit(s, device_form(main(World(s)), label, token))
    /\ Note("device_form", NoToken)

\* what each account types: its own date, so that an entry shows whose it is
DateOf == <<1, 2>>
DeviceTokenOf == <<"ExponentPushToken[a]", "ExponentPushToken[b]">>

OtherRegisterStep ==
    users = <<>> /\ Register(OtherSession, AccountOf[OtherSession], LongPassword, LongPassword, FALSE)
OtherEventStep ==
    /\ ~Has(calendar_events, OtherSession)
    /\ CreateEvent(OtherSession, <<"t">>, DateOf[OtherSession], [hour |-> 9, minute |-> 0],
                   [hour |-> 10, minute |-> 0], <<<<"p">>>>)
OtherPushStep ==
    ~Has(personal_tasks, OtherSession) /\ PushToPersonal(OtherSession, 1, 1)
OtherCheckInStep ==
    /\ Has(personal_tasks, OtherSession) /\ ~Has(check_ins, OtherSession)
    /\ CheckIn(OtherSession, 5, 5, "Day")
OtherAppointmentStep ==
    /\ Has(check_ins, OtherSession) /\ ~Has(appointments, OtherSession)
    /\ AddAppointment(OtherSession, <<"t">>, DateOf[OtherSession])
OtherSymptomStep ==
    /\ Has(appointments, OtherSession) /\ ~Has(symptoms, OtherSession)
    /\ AddSymptom(OtherSession, <<"s">>, 5, DateOf[OtherSession])
OtherDeviceStep ==
    /\ Has(symptoms, OtherSession) /\ ~Has(devices, OtherSession)
    /\ AddDevice(OtherSession, "phone", DeviceTokenOf[OtherSession])
OtherProfileStep ==
    /\ Has(devices, OtherSession) /\ ~ProfileSaved(OtherSession)
    /\ SaveProfile(OtherSession, <<"B">>, <<2000, 2, 29>>,
                   [sign |-> "Aries", dates |-> "Mar 21-Apr 19"], "cloud")

OwnerRegisterStep ==
    /\ ProfileSaved(OtherSession)
    /\ Register(OwnerSession, AccountOf[OwnerSession], LongPassword, LongPassword, FALSE)
OwnerEventStep ==
    CreateEvent(OwnerSession, <<"t">>, DateOf[OwnerSession], [hour |-> 9, minute |-> 0],
                [hour |-> 10, minute |-> 0], <<<<"p">>>>)
OwnerEditStep ==
    EditEvent(OwnerSession, 1, DateOf[OwnerSession], [hour |-> 9, minute |-> 30],
              [hour |-> 10, minute |-> 0], <<<<"p">>>>)
OwnerDragStep == DragEvent(OwnerSession, 1, DateOf[OwnerSession], <<600, 660>>)
OwnerDeleteStep == DeleteEvent(OwnerSession, 1)
OwnerToggleEventTaskStep == ToggleEventTask(OwnerSession, 1, 1)
OwnerPushStep == PushToPersonal(OwnerSession, 1, 1)
OwnerAddTaskStep == AddTask(OwnerSession, <<"m", "e", "d", "s">>, "Medium ")
OwnerTickTaskStep == \E k \in 1..MaxOwnedTasks : TogglePersonalTask(OwnerSession, k)
OwnerClearStep == ClearCompleted(OwnerSession)
OwnerCheckInStep == ~Has(check_ins, OwnerSession) /\ CheckIn(OwnerSession, 2, 2, "Night")
OwnerAppointmentStep ==
    /\ Has(check_ins, OwnerSession) /\ ~Has(appointments, OwnerSession)
    /\ AddAppointment(OwnerSession, <<"t">>, DateOf[OwnerSession])
OwnerSymptomStep ==
    /\ Has(appointments, OwnerSession) /\ ~Has(symptoms, OwnerSession)
    /\ AddSymptom(OwnerSession, <<"s">>, 7, DateOf[OwnerSession])
OwnerDeviceStep ==
    /\ Has(symptoms, OwnerSession) /\ ~Has(devices, OwnerSession)
    /\ AddDevice(OwnerSession, "phone", DeviceTokenOf[OwnerSession])
OwnerProfileStep ==
    /\ Has(devices, OwnerSession)
    /\ \E birthday \in {<<2000, 1, 15>>, <<2000, 2, 30>>}, theme_choice \in {"coquette", "cloud"} :
        SaveProfile(OwnerSession, <<"A">>, birthday,
                    [sign |-> "Aries", dates |-> "Mar 21-Apr 19"], theme_choice)
OwnerLeaveStep == SignOut(OwnerSession)
OwnerReturnStep == Login(OwnerSession, AccountOf[OwnerSession], LongPassword, FALSE)

NextOwnership ==
    \/ OtherRegisterStep
    \/ OtherEventStep
    \/ OtherPushStep
    \/ OtherCheckInStep
    \/ OtherAppointmentStep
    \/ OtherSymptomStep
    \/ OtherDeviceStep
    \/ OtherProfileStep
    \/ OwnerRegisterStep
    \/ OwnerEventStep
    \/ OwnerEditStep
    \/ OwnerDragStep
    \/ OwnerDeleteStep
    \/ OwnerToggleEventTaskStep
    \/ OwnerPushStep
    \/ OwnerAddTaskStep
    \/ OwnerTickTaskStep
    \/ OwnerClearStep
    \/ OwnerCheckInStep
    \/ OwnerAppointmentStep
    \/ OwnerSymptomStep
    \/ OwnerDeviceStep
    \/ OwnerProfileStep
    \/ OwnerLeaveStep
    \/ OwnerReturnStep

SpecOwnership == Init /\ [][NextOwnership]_vars

(***************************************************************************)
(* One account open in two browser tabs: each tab is a session with its    *)
(* own loaded copy of the calendar events.                                 *)
(***************************************************************************)
TwoItemChecklist == <<<<"p">>, <<"q">>>>

TabReturnStep == \E s \in Sessions : Login(s, <<"a">>, LongPassword, FALSE)
TabLeaveStep == \E s \in Sessions : SignOut(s)
TwoItemEventStep ==
    \E s \in Sessions :
        /\ calendar_events = <<>>
        /\ CreateEvent(s, <<"t">>, 1, [hour |-> 9, minute |-> 0], [hour |-> 10, minute |-> 0],
                       TwoItemChecklist)
TabToggleStep == \E s \in Sessions, i \in 1..Len(TwoItemChecklist) : ToggleEventTask(s, 1, i)

NextTabs ==
    \/ RegisterOwnerStep
    \/ TabReturnStep
    \/ TabLeaveStep
    \/ TwoItemEventStep
    \/ TabToggleStep

SpecTabs == Init /\ [][NextTabs]_vars

(***************************************************************************)
(* The focus timer on the Home desk, next to what changes the energy       *)
(***************************************************************************)
FocusButtons == {"focus_start", "focus_end_work", "focus_end_break"}

\* the button the widget shows in each state
ButtonShown(state) ==
    CASE state = "ready" -> "focus_start"
      [] state = "work" -> "focus_end_work"
      [] state = "break" -> "focus_end_break"
      [] OTHER -> NoButton

\* the slider positions on both sides of each preset threshold
TimerEnergies == {1, 3, 4, 7, 8, 10}

RenderTimer(s) ==
    /\ Authenticated(s)
    /\ Commit(s, render_focus_timer(main(World(s)), NoButton))
    /\ Note("render_focus_timer", NoToken)

PressTimerButton(s, pressed) ==
    /\ Authenticated(s)
    /\ pressed = ButtonShown(session_state[s].focus_timer_state)
    /\ Commit(s, render_focus_timer(main(World(s)), pressed))
    /\ Note(pressed, NoToken)

MoveEnergySlider(s, latest_energy) ==
    /\ Authenticated(s)
    /\ Commit(s, energy_check_slider(main(World(s)), latest_energy))
    /\ Note("energy_check_slider", NoToken)

RenderTimerStep == \E s \in CalendarSessions : RenderTimer(s)
PressTimerButtonStep == \E s \in CalendarSessions, pressed \in FocusButtons : PressTimerButton(s, pressed)
MoveEnergySliderStep ==
    \E s \in CalendarSessions, latest_energy \in TimerEnergies : MoveEnergySlider(s, latest_energy)
TimerCheckInStep ==
    \E s \in CalendarSessions, energy \in {3, 8} :
        check_ins = <<>> /\ CheckIn(s, energy, energy, "Day")

NextTimer ==
    \/ RegisterOwnerStep
    \/ RenderTimerStep
    \/ PressTimerButtonStep
    \/ MoveEnergySliderStep
    \/ TimerCheckInStep
    \/ LeaveStep
    \/ ReturnStep

SpecTimer == Init /\ [][NextTimer]_vars

(***************************************************************************)
(* The reminder engine applied to lists of appointments                    *)
(***************************************************************************)
MaxListedAppointments == 2

\* the day the reminders are rendered
ReminderToday == 400

AppointmentCategories == {"Dental Cleaning", "Therapy", "Annual Physical", "Other"}

\* days on both sides of today - cadence, for each cadence
AppointmentDays == {34, 35, 36, 219, 220, 221, 392, 393, 394}

AppointmentListInputs ==
    UNION {{[k \in 1..n |->
                [title |-> <<"t">>, category |-> categories[k], provider |-> <<>>,
                 date |-> combine(days[k], [hour |-> 0, minute |-> 0]), notes |-> <<>>]] :
            categories \in [1..n -> AppointmentCategories], days \in [1..n -> AppointmentDays]} :
           n \in 0..MaxListedAppointments}

InitReminders ==
    /\ InitWorld
    /\ call \in {[fn |-> "input", args |-> appts, result |-> <<>>] :
                    appts \in AppointmentListInputs}

RemindersStep ==
    /\ call.fn = "input"
    /\ call' = [fn |-> "appointment_reminders", args |-> call.args,
                result |-> appointment_reminders(call.args, ReminderToday)]
    /\ UNCHANGED world_vars

NextReminders == RemindersStep

SpecReminders == InitReminders /\ [][NextReminders]_vars

(***************************************************************************)
(* encrypt_text and decrypt_text applied to texts and keys                 *)
(***************************************************************************)
MaxTextLen == 3

TextChars == {"a", "b", " "}

TextInputs == UNION {[1..n -> TextChars] : n \in 0..MaxTextLen}

\* keys as the program makes them: from a password and a salt, from a remember-me token
KeyInputs == {derive_encryption_key(LongPassword, b64encode(<<"salt">>)),
              derive_encryption_key(OtherPassword, b64encode(<<"salt">>)),
              derive_persistent_key(1)}

InitCrypto ==
    /\ InitWorld
    /\ call \in {[fn |-> "input", args |-> [text |-> text, key |-> key, other |-> other],
                  result |-> <<>>] :
                    text \in TextInputs, key \in KeyInputs, other \in KeyInputs}

\* the text is encrypted with one key and the result decrypted with a key
EncryptDecryptStep ==
    /\ call.fn = "input"
    /\ LET ciphertext == encrypt_text(call.args.text, call.args.key)
       IN  call' = [fn |-> "decrypt_text", args |-> call.args,
                    result |-> [ciphertext |-> ciphertext,
                                text |-> decrypt_text(ciphertext, call.args.other)]]
    /\ UNCHANGED world_vars

NextCrypto == EncryptDecryptStep

SpecCrypto == InitCrypto /\ [][NextCrypto]_vars

(***************************************************************************)
(* build_tasks_from_text applied to checklist texts and seed lists         *)
(***************************************************************************)
MaxSeedTasks == 2
MaxTextLines == 2

\* the lines typed: labels of seed tasks, one with a blank in front, a new
\* label, a blank line
RediffLineInputs == {<<"p">>, <<" ", "p">>, <<"q">>, <<"r">>, <<" ">>}

RediffTextInputs == UNION {[1..n -> RediffLineInputs] : n \in 0..MaxTextLines}

\* the task list an event already has: ids drawn earlier, any ticks and links
SeedInputs ==
    UNION {{[k \in 1..n |->
                [id |-> uuid4(k), label |-> labels[k], done |-> dones[k],
                 linked_task_id |-> links[k]]] :
            labels \in [1..n -> {<<"p">>, <<"q">>}], dones \in [1..n -> BOOLEAN],
            links \in [1..n -> {None, uuid4(MaxSeedTasks + MaxTextLines + 1)}]} :
           n \in 0..MaxSeedTasks}

InitRediff ==
    /\ InitWorld
    /\ call \in {[fn |-> "input", args |-> [text |-> text, seed |-> seed], result |-> <<>>] :
                    text \in RediffTextInputs, seed \in SeedInputs}

\* the uuid4 values drawn so far are those of the seed
RediffStep ==
    /\ call.fn = "input"
    /\ call' = [fn |-> "build_tasks_from_text", args |-> call.args,
                result |-> build_tasks_from_text(call.args.text, call.args.seed,
                                                 Len(call.args.seed)).tasks]
    /\ UNCHANGED world_vars

NextRediff == RediffStep

SpecRediff == InitRediff /\ [][NextRediff]_vars

(***************************************************************************)
(* Re-entry after time away: one account, two browser sessions, days pass  *)
(***************************************************************************)
MaxReentryCheckIns == 2

\* the days the clock visits: check-ins of day 1 are 3 days old on day 4
ReentryDays == {1, 4, 5}

\* datetime.now() while a page is rendered on the current day
RenderClocks == {now * TicksPerDay + tick : tick \in 0..MaxReentryCheckIns}

PressReentryButton(s, pressed) ==
    /\ Authenticated(s)
    /\ needs_no_shame_screen(main(World(s)), CheckInClock)
    /\ Commit(s, reentry_buttons(main(World(s)), CheckInClock, pressed))
    /\ Note(pressed, NoToken)

PressReentryButtonStep ==
    \E s \in Sessions, pressed \in DOMAIN ReentryToasts : PressReentryButton(s, pressed)
ReentryCheckInStep ==
    \E s \in Sessions : Len(check_ins) < MaxReentryCheckIns /\ CheckIn(s, 5, 5, "Day")
ReentryTickStep == \E instant \in ReentryDays : Tick(instant)

NextReentry ==
    \/ RegisterOwnerStep
    \/ TabReturnStep
    \/ TabLeaveStep
    \/ ReentryCheckInStep
    \/ PressReentryButtonStep
    \/ ReentryTickStep

SpecReentry == Init /\ [][NextReentry]_vars

(***************************************************************************)
(* A remembered account that fills every list, leaves, returns by password *)
(* or by token in either browser session, while the clock runs             *)
(***************************************************************************)
RegisterRememberedStep ==
    Register(OwnerSession, AccountOf[OwnerSession], LongPassword, LongPassword, TRUE)
ReturnRememberedStep ==
    \E remember_me \in BOOLEAN :
        Login(OwnerSession, AccountOf[OwnerSession], LongPassword, remember_me)
VisitAnyStep == \E s \in Sessions, token \in {NoToken, ForgedToken} \cup 1..MaxTokens : Visit(s, token)
ListsEventStep ==
    /\ personal_tasks # <<>> /\ calendar_events = <<>>
    /\ CreateEvent(OwnerSession, <<"t">>, 1, [hour |-> 9, minute |-> 0],
                   [hour |-> 10, minute |-> 0], <<<<"p">>>>)
ListsTaskStep == personal_tasks = <<>> /\ AddTask(OwnerSession, <<"m", "e", "d", "s">>, "Medium ")

ListsCheckInStep == calendar_events # <<>> /\ OwnerCheckInStep
ListsExpiryStep == Tick(MaxNow)

NextLists ==
    \/ RegisterRememberedStep
    \/ ReturnRememberedStep
    \/ VisitAnyStep
    \/ TabLeaveStep
    \/ ListsEventStep
    \/ ListsTaskStep
    \/ ListsCheckInStep
    \/ OwnerAppointmentStep
    \/ OwnerSymptomStep
    \/ OwnerDeviceStep
    \/ ListsExpiryStep

SpecLists == Init /\ [][NextLists]_vars

(***************************************************************************)
(* One authenticated session working on personal tasks and event           *)
(* checklists while the clock runs                                         *)
(***************************************************************************)
RefineAddTaskStep ==
    \E s \in CalendarSessions :
        Len(personal_tasks) < MaxLinkedTasks /\ AddTask(s, <<"m", "e", "d", "s">>, "Medium ")
RefineDeleteEventStep == \E s \in CalendarSessions, at \in 1..MaxEvents : DeleteEvent(s, at)
RefineTickStep == now = 0 /\ Tick(1)
RefineCreateEventStep == calendar_events = <<>> /\ CreateChecklistEventStep

NextRefine ==
    \/ RegisterOwnerStep
    \/ RefineCreateEventStep
    \/ EditChecklistStep
    \/ RefineDeleteEventStep
    \/ ToggleEventTaskStep
    \/ PushToPersonalStep
    \/ RefineAddTaskStep
    \/ TogglePersonalTaskStep
    \/ ClearCompletedStep
    \/ RefineTickStep

SpecRefine == Init /\ [][NextRefine]_vars

(***************************************************************************)
(* Sign-in, registration and remember-me properties                        *)
(***************************************************************************)
StoredIn(table, token) == \E row \in table : row.token_hash = [sha256_hex |-> token]

EntityLists(st) == <<st.check_ins, st.appointments, st.symptoms, st.calendar_events,
                     st.devices, st.tasks>>

NoEntityLoaded(st) == EntityLists(st) = <<<<>>, <<>>, <<>>, <<>>, <<>>, <<>>>> /\ ~st.data_loaded

\* C1: a remember-me token granted to a user with key K, presented by a new
\* browser session while its record is stored: before issued-at + 7 days the
\* session is authenticated as that user with crypto key K; after it the record
\* is deleted, the session query parameter is cleared and the session stays
\* anonymous.
RememberTokenLifecycle ==
    \A s \in Sessions, grant \in issued :
        StoredIn(session_tokens, grant.token) =>
            LET w == VisitResult(s, grant.token)
            IN  /\ now < grant.issued_at + TokenTTLDays =>
                    /\ Truthy(w.st.user)
                    /\ w.st.user[1].id = grant.user_id
                    /\ w.st.crypto_key = Some(grant.key)
                /\ now > grant.issued_at + TokenTTLDays =>
                    /\ ~StoredIn(w.session_tokens, grant.token)
                    /\ w.qp = NoToken
                    /\ w.st.user = None
                    /\ w.st.crypto_key = None

\* a new browser session has just been authenticated by a token granted earlier
\* to another run, with the key of the grant
RememberTokenLifecycleWitness ==
    /\ last_step.op = "visit"
    /\ \E grant \in issued :
        /\ grant.token = last_step.token
        /\ now < grant.issued_at + TokenTTLDays
        /\ Truthy(session_state[1].user)
        /\ session_state[1].user[1].id = grant.user_id
        /\ session_state[1].crypto_key = Some(grant.key)
        /\ session_state[1].tasks # <<>>

\* C2: signing out deletes the session's token record, clears the query
\* parameter and leaves every session-state key at its init_state default.
SignOutResetsEverything ==
    \A s \in Sessions :
        Authenticated(s) =>
            LET w == SignOutResult(s)
            IN  /\ session_state[s].persistent_token # NoToken =>
                        ~StoredIn(w.session_tokens, session_state[s].persistent_token)
                /\ w.qp = NoToken
                /\ w.st = init_state

\* C3: a sign-in submitted by an anonymous session with an email that has no
\* account, or a password whose hash under the stored salt is not the stored
\* hash, leaves the session as it was (anonymous, nothing loaded), leaves the
\* session-token table as it was, and reports "Invalid credentials.".
LoginRejected(email, password) ==
    \A i \in 1..Len(users) :
        \/ users[i].email # Lower(Strip(email))
        \/ users[i].password_hash # [b64 |-> [kdf_password |-> password,
                                              kdf_salt |-> users[i].password_salt.b64]]

LoginFailsClosed ==
    \A s \in Sessions, email \in EmailInputs, password \in PasswordInputs, remember_me \in BOOLEAN :
        (~Authenticated(s) /\ LoginRejected(email, password)) =>
            LET w == LoginResult(s, email, password, remember_me)
            IN  /\ w.st.user = None
                /\ w.st.crypto_key = None
                /\ NoEntityLoaded(w.st)
                /\ w.st = session_state[s]
                /\ w.session_tokens = session_tokens
                /\ "Invalid credentials." \in w.msgs

\* a sign-in has just been refused although accounts, a stored token and a
\* stored task exist
LoginFailsClosedWitness ==
    /\ last_step.op = "login"
    /\ messages = {"Invalid credentials."}
    /\ ~Authenticated(1)
    /\ users # <<>>
    /\ session_tokens # {}
    /\ personal_tasks # <<>>

\* C4: a registration whose trimmed, lowercased email is empty or already has
\* an account, whose password is shorter than 8 characters, or whose password
\* differs from its confirmation, creates no user row, issues no token and
\* leaves the session anonymous; and no two user rows share a normalized email.
InvalidRegistration(form) ==
    \/ Lower(Strip(form.email)) = <<>>
    \/ \E i \in 1..Len(users) : users[i].email = Lower(Strip(form.email))
    \/ Len(form.password) < 8
    \/ form.password # form.confirm

RegistrationValidation ==
    /\ \A s \in Sessions, form \in RegisterInputs, remember_new \in BOOLEAN :
            (~Authenticated(s) /\ InvalidRegistration(form)) =>
                LET w == RegisterResult(s, form.email, form.password, form.confirm, remember_new)
                IN  /\ w.users = users
                    /\ w.session_tokens = session_tokens
                    /\ w.rng = rng
                    /\ w.st.user = None
                    /\ w.st.crypto_key = None
    /\ \A i, j \in 1..Len(users) :
            Lower(Strip(users[i].email)) = Lower(Strip(users[j].email)) => i = j

\* a registration for an email that differs from an existing account's only in
\* case and spacing has just been refused
RegistrationValidationWitness ==
    /\ last_step.op = "register"
    /\ "Account already exists." \in messages
    /\ Len(users) = 1
    /\ ~Authenticated(1)

\* C5: an auto-login that cannot succeed (no record for the token's hash, an
\* expired record, a record whose user row is gone, or a wrapped key that the
\* token's key does not open) leaves user and crypto key unset, the query
\* parameter absent, no raw token in the session and no entity list loaded.
Cleared(w) ==
    /\ w.st.user = None
    /\ w.st.crypto_key = None
    /\ w.qp = NoToken
    /\ w.st.persistent_token = NoToken
    /\ NoEntityLoaded(w.st)

RecordOf(table, token) == CHOOSE row \in table : row.token_hash = [sha256_hex |-> token]

\* the record of `token` with its wrapped key replaced by one wrapped for another token
Tampered(table, token) ==
    {IF row.token_hash = [sha256_hex |-> token]
     THEN [row EXCEPT !.encrypted_key = [fernet |-> row.encrypted_key.fernet,
                                         key |-> derive_persistent_key(ForgedToken)]]
     ELSE row : row \in table}

AutoLoginFailsClosed ==
    \A s \in Sessions, token \in {ForgedToken} \cup 1..rng :
        LET fresh == [World(s) EXCEPT !.st = init_state, !.qp = token]
        IN  /\ ~StoredIn(session_tokens, token) => Cleared(main(fresh))
            /\ StoredIn(session_tokens, token) =>
                /\ RecordOf(session_tokens, token).expires_at.iso < now => Cleared(main(fresh))
                /\ Cleared(main([fresh EXCEPT !.users = <<>>]))
                /\ Cleared(main([fresh EXCEPT !.session_tokens = Tampered(session_tokens, token)]))

\* a new browser session has just presented a token whose record had expired,
\* and stays anonymous although its owner has a stored task
AutoLoginFailsClosedWitness ==
    /\ last_step.op = "visit"
    /\ \E grant \in issued :
        /\ grant.token = last_step.token
        /\ grant.issued_at + TokenTTLDays < now
        /\ \E i \in 1..Len(personal_tasks) : personal_tasks[i].user_id = grant.user_id
    /\ ~Authenticated(1)
    /\ query_params[1] = NoToken

Minutes(value) == value.hour * 60 + value.minute

HasRow(table, id) == \E i \in 1..Len(table) : table[i].id = id

Row(table, id) == table[CHOOSE i \in 1..Len(table) : table[i].id = id]

OtherRowsKept(before, after, id) ==
    /\ Len(after) = Len(before)
    /\ \A i \in 1..Len(before) : before[i].id # id => after[i] = before[i]

LinkedTo(tasks, id) == {i \in 1..Len(tasks) : tasks[i].linked_task_id = id}

EventTaskPropagation ==
    \A s \in Sessions :
        Authenticated(s) =>
            \A at \in 1..Len(session_state[s].calendar_events), d \in BOOLEAN :
                \A i \in 1..Len(EventAt(s, at).tasks) :
                    LET task == EventAt(s, at).tasks[i]
                        X == task.linked_task_id
                        w == ToggleEventTaskResult(s, at, task.id, d)
                    IN  (/\ FirstIndex(EventAt(s, at).tasks, task.id) = i
                         /\ X # None
                         /\ HasRow(session_state[s].tasks, X)) =>
                            /\ Row(w.st.tasks, X).done = d
                            /\ (Row(w.st.tasks, X).completed_at # None) = d
                            /\ HasRow(w.personal_tasks, X)
                            /\ Row(w.personal_tasks, X).done = d
                            /\ (Row(w.personal_tasks, X).completed_at # None) = d
                            /\ w.st.calendar_events[at].tasks[i].done = d
                            /\ HasRow(w.calendar_events, EventAt(s, at).id)
                            /\ Row(w.calendar_events, EventAt(s, at).id).tasks_json
                                    = [json |-> w.st.calendar_events[at].tasks]

\* an event task linked to a personal task has just been ticked, and the
\* personal task is done with a completion time, in session and storage
EventTaskPropagationWitness ==
    /\ last_step.op = "toggle_event_task"
    /\ \E at \in 1..Len(session_state[1].calendar_events) :
        \E i \in 1..Len(EventAt(1, at).tasks) :
            LET task == EventAt(1, at).tasks[i]
            IN  /\ task.linked_task_id # None
                /\ task.done
                /\ HasRow(session_state[1].tasks, task.linked_task_id)
                /\ Row(session_state[1].tasks, task.linked_task_id).done
                /\ Row(session_state[1].tasks, task.linked_task_id).completed_at # None
                /\ Row(personal_tasks, task.linked_task_id).done
                /\ Row(personal_tasks, task.linked_task_id).completed_at # None
                /\ Row(calendar_events, EventAt(1, at).id).tasks_json.json[i].done

\* C10: after personal task X is toggled to d, every event task linked to X has
\* done = d, in every event of the session and in the stored task JSON of every
\* event of the user.
PersonalTaskPropagation ==
    \A s \in Sessions :
        Authenticated(s) =>
            \A k \in 1..Len(session_state[s].tasks), d \in BOOLEAN :
                LET X == session_state[s].tasks[k].id
                    w == TogglePersonalTaskResult(s, X, d)
                IN  /\ \A at \in 1..Len(w.st.calendar_events) :
                        LET tasks == w.st.calendar_events[at].tasks
                        IN  /\ \A i \in LinkedTo(tasks, X) : tasks[i].done = d
                            /\ LinkedTo(tasks, X) # {} =>
                                /\ HasRow(w.calendar_events, w.st.calendar_events[at].id)
                                /\ Row(w.calendar_events, w.st.calendar_events[at].id).tasks_json
                                        = [json |-> tasks]
                    /\ \A r \in 1..Len(w.calendar_events) :
                        w.calendar_events[r].user_id = w.st.user[1].id =>
                            \A i \in LinkedTo(w.calendar_events[r].tasks_json.json, X) :
                                w.calendar_events[r].tasks_json.json[i].done = d

\* a personal task has just been ticked and two stored event tasks linked to it
\* are done
PersonalTaskPropagationWitness ==
    /\ last_step.op = "toggle_personal_task"
    /\ \E k \in 1..Len(personal_tasks), r \in 1..Len(calendar_events) :
        /\ personal_tasks[k].done
        /\ Cardinality(LinkedTo(calendar_events[r].tasks_json.json, personal_tasks[k].id)) = 2
        /\ \A i \in LinkedTo(calendar_events[r].tasks_json.json, personal_tasks[k].id) :
                calendar_events[r].tasks_json.json[i].done

(***************************************************************************)
(* Personal checklist properties                                           *)
(***************************************************************************)
\* C11: every personal task, stored or listed in a session, has a size that is
\* one of "Tiny", "Medium", "Big", whether it came from the Home planner or
\* from "Push to personal list".
PersonalTaskSizes ==
    /\ \A i \in 1..Len(personal_tasks) : personal_tasks[i].size \in TASK_SIZES
    /\ \A s \in Sessions :
        \A k \in 1..Len(session_state[s].tasks) : session_state[s].tasks[k].size \in TASK_SIZES

\* C13: "Clear completed tasks" pressed by a signed-in user leaves no done task
\* of that user in storage or in the session's list, and leaves every task of
\* that user that is not done, and every task of any other user, as it was.
ClearResult(s) == clear_completed_button(main(World(s)))

ClearCompletedFrame ==
    \A s \in Sessions :
        Authenticated(s) =>
            LET uid == session_state[s].user[1].id
                w == ClearResult(s)
                Kept(row) == ~(row.user_id = uid /\ row.done)
            IN  /\ \A i \in 1..Len(w.personal_tasks) : Kept(w.personal_tasks[i])
                /\ \A k \in 1..Len(w.st.tasks) : ~w.st.tasks[k].done
                /\ w.personal_tasks = SelectSeq(personal_tasks, Kept)
                /\ w.st.tasks = SelectSeq(session_state[s].tasks, LAMBDA task : ~task.done)

\* a clear has just removed a done task of the session's user, who keeps a task
\* that is not done, while the other account still has its done task
ClearCompletedFrameWitness ==
    /\ last_step.op = "clear_completed_tasks"
    /\ Authenticated(1)
    /\ Len(personal_tasks) < uuids
    /\ \E k \in 1..Len(session_state[1].tasks) : ~session_state[1].tasks[k].done
    /\ \E i \in 1..Len(personal_tasks) :
        personal_tasks[i].user_id = session_state[1].user[1].id /\ ~personal_tasks[i].done
    /\ \E i \in 1..Len(personal_tasks) :
        personal_tasks[i].user_id # session_state[1].user[1].id /\ personal_tasks[i].done

\* C14: every personal task, in each session's list and in storage, has a
\* completion time exactly when it is done, whether the flag was set at
\* creation, by the task's own checkbox or by a linked event task.
Stamped(task) == (task.completed_at # None) = task.done

CompletionStampIffDone ==
    /\ \A i \in 1..Len(personal_tasks) : Stamped(personal_tasks[i])
    /\ \A s \in Sessions :
        \A k \in 1..Len(session_state[s].tasks) : Stamped(session_state[s].tasks[k])

\* a linked event task has just been unticked: its personal task is open again
\* without a completion time, next to a done task that carries one
CompletionStampIffDoneWitness ==
    /\ last_step.op = "toggle_event_task"
    /\ \E at \in 1..Len(session_state[1].calendar_events) :
        \E i \in 1..Len(EventAt(1, at).tasks) :
            LET task == EventAt(1, at).tasks[i]
            IN  /\ task.linked_task_id # None
                /\ ~task.done
                /\ HasRow(personal_tasks, task.linked_task_id)
                /\ ~Row(personal_tasks, task.linked_task_id).done
                /\ Row(personal_tasks, task.linked_task_id).completed_at = None
    /\ \E i \in 1..Len(personal_tasks) :
        personal_tasks[i].done /\ personal_tasks[i].completed_at # None
    /\ \E k \in 1..Len(session_state[1].tasks) :
        session_state[1].tasks[k].done /\ session_state[1].tasks[k].completed_at # None

\* C12: today_three_tasks returns three entries of sizes Big, Medium, Tiny in
\* that order; the entry of a size is the first task of the list that is not
\* done and has that size, or else the placeholder of the size with its
\* guidance text; no entry is a done task.
OpenOfSize(tasks, size) == {k \in 1..Len(tasks) : ~tasks[k].done /\ tasks[k].size = size}

TodayThree ==
    call.fn = "today_three_tasks" =>
        LET tasks == call.args
            trio == call.result
        IN  /\ Len(trio) = 3
            /\ \A i \in 1..3 :
                LET size == <<"Big", "Medium", "Tiny">>[i]
                    open == OpenOfSize(tasks, size)
                IN  /\ trio[i].size = size
                    /\ ~trio[i].done
                    /\ open # {} => trio[i] = tasks[Min(open)]
                    /\ open = {} =>
                        /\ trio[i].id = [placeholder |-> size]
                        /\ trio[i].title = guidance[size]

\* a list with no Big task, one Medium task and a done Tiny task ahead of a
\* Tiny task that is not done: placeholder, the Medium task, the open Tiny task
TodayThreeWitness ==
    /\ call.fn = "today_three_tasks"
    /\ Len(call.args) = 3
    /\ call.args[1].size = "Tiny" /\ call.args[1].done
    /\ call.args[2].size = "Medium" /\ ~call.args[2].done
    /\ call.args[3].size = "Tiny" /\ ~call.args[3].done
    /\ call.result[1].id = [placeholder |-> "Big"]
    /\ call.result[2] = call.args[2]
    /\ call.result[3] = call.args[3]

(***************************************************************************)
(* Energy and check-in properties                                          *)
(***************************************************************************)
\* C15: for every energy 0..10, energy_task_suggestions returns the low-energy
\* list of the library when energy <= 3, the medium-energy list when
\* 3 < energy <= 7 and the high-energy list when energy > 7.
ListFor(energy) ==
    IF energy <= 3 THEN ENERGY_TASK_LIBRARY["low energy"]
    ELSE IF energy <= 7 THEN ENERGY_TASK_LIBRARY["medium energy"]
    ELSE ENERGY_TASK_LIBRARY["high energy"]

EnergyTaskSuggestions ==
    call.fn = "energy_task_suggestions" =>
        /\ call.args \in EnergyInputs
        /\ call.result.raised = None
        /\ call.result.returned = Some(ListFor(call.args))

\* C16: a session whose data was just loaded for a user with stored check-ins
\* (at sign-in, or by the reload that ends a check-in) has the schedule and the
\* energy of that user's check-in with the greatest timestamp.
LatestCheckIn(table, user_id) ==
    LET own == {i \in 1..Len(table) : table[i].user_id = user_id}
    IN  table[CHOOSE i \in own :
                \A j \in own : fromisoformat(table[j].timestamp) <= fromisoformat(table[i].timestamp)]

LatestCheckInSeedsSession ==
    \A s \in Sessions :
        (/\ Authenticated(s)
         /\ last_step.op \in {"login", "check_in_home"}
         /\ \E i \in 1..Len(check_ins) : check_ins[i].user_id = session_state[s].user[1].id) =>
            LET latest == LatestCheckIn(check_ins, session_state[s].user[1].id)
            IN  /\ session_state[s].selected_schedule = latest.schedule
                /\ session_state[s].latest_energy = latest.energy

(***************************************************************************)
(* Profile properties                                                      *)
(***************************************************************************)
\* C17: saving the profile details with a month/day/year that is not a real
\* calendar date reports an error and leaves the account's birthday, in the
\* users table and in the session, as it was before the save.
InvalidBirthdayRejected ==
    \A s \in Sessions :
        Authenticated(s) =>
            \A preferred_name \in NameInputs, birthday \in BirthdayInputs,
               zodiac_choice \in ZodiacInputs :
                ~is_date(birthday[1], birthday[2], birthday[3]) =>
                    LET uid == session_state[s].user[1].id
                        w == SaveProfileResult(s, preferred_name, birthday, zodiac_choice,
                                               session_state[s].theme_key)
                    IN  /\ "Birthday is invalid. Please adjust day/month/year." \in w.msgs
                        /\ w.users[uid].birthday = users[uid].birthday
                        /\ w.st.user[1].birthday = session_state[s].user[1].birthday

(***************************************************************************)
(* Ownership properties                                                    *)
(***************************************************************************)
\* what is stored for the accounts other than user_id
RowsOfOthers(w, user_id) ==
    LET others(table) == SelectSeq(table, LAMBDA row : row.user_id # user_id)
    IN  [users |-> SelectSeq(w.users, LAMBDA row : row.id # user_id),
         session_tokens |-> {row \in w.session_tokens : row.user_id # user_id},
         check_ins |-> others(w.check_ins),
         appointments |-> others(w.appointments),
         symptoms |-> others(w.symptoms),
         devices |-> others(w.devices),
         calendar_events |-> others(w.calendar_events),
         personal_tasks |-> others(w.personal_tasks)]

\* the handler leaves the rows of the other accounts as they are
Scoped(s, result) ==
    RowsOfOthers(result, session_state[s].user[1].id)
        = RowsOfOthers(World(s), session_state[s].user[1].id)

\* every write a signed-in session can make, from the current state
WritesScoped(s) ==
    LET st == session_state[s]
        nine == [hour |-> 9, minute |-> 0]
        ten == [hour |-> 10, minute |-> 0]
    IN  /\ Scoped(s, CreateEventResult(s, <<"t">>, DateOf[s], nine, ten, <<<<"p">>>>))
        /\ \A at \in 1..Len(st.calendar_events) :
            /\ Scoped(s, EditEventResult(s, at, DateOf[s], [hour |-> 9, minute |-> 30], ten,
                                         <<<<"p">>>>))
            /\ Scoped(s, DragResult(s, at, DateOf[s], <<600, 660>>))
            /\ Scoped(s, delete_event_button(main(World(s)), EventAt(s, at)))
            /\ \A i \in 1..Len(EventAt(s, at).tasks) :
                /\ Scoped(s, ToggleEventTaskResult(s, at, EventAt(s, at).tasks[i].id,
                                                   ~EventAt(s, at).tasks[i].done))
                /\ Scoped(s, push_to_personal_list(main(World(s)), EventAt(s, at),
                                                   EventAt(s, at).tasks[i]))
        /\ Scoped(s, planner_save_task(main(World(s)), <<"m", "e", "d", "s">>, "Medium "))
        /\ \A k \in 1..Len(st.tasks) :
            Scoped(s, TogglePersonalTaskResult(s, st.tasks[k].id, ~st.tasks[k].done))
        /\ Scoped(s, clear_completed_button(main(World(s))))
        /\ Scoped(s, check_in_home(main(World(s)), CheckInClock, 2, 2, "Night", <<"o", "k">>))
        /\ Scoped(s, appointment_form(main(World(s)), <<"t">>, "Therapy", <<"d", "r">>,
                                      DateOf[s], <<>>))
        /\ Scoped(s, symptom_form(main(World(s)), <<"s">>, 7, <<>>, DateOf[s]))
        /\ Scoped(s, device_form(main(World(s)), "phone", DeviceTokenOf[s]))
        /\ \A birthday \in {<<2000, 1, 15>>, <<2000, 2, 30>>}, theme_choice \in {"coquette", "cloud"} :
            Scoped(s, SaveProfileResult(s, <<"A">>, birthday,
                                        [sign |-> "Aries", dates |-> "Mar 21-Apr 19"],
                                        theme_choice))
        /\ Scoped(s, tour_on_save(main(World(s))))
        /\ Scoped(s, SignOutResult(s))

\* the entry of a loaded list is a stored row of exactly the account user_id
OnlyOwn(table, user_id, same(_)) ==
    /\ \E i \in 1..Len(table) : same(table[i]) /\ table[i].user_id = user_id
    /\ \A i \in 1..Len(table) : same(table[i]) => table[i].user_id = user_id

LoadedListsOwn(s) ==
    LET st == session_state[s]
        user_id == st.user[1].id
    IN  /\ \A k \in 1..Len(st.tasks) :
            OnlyOwn(personal_tasks, user_id, LAMBDA row : row.id = st.tasks[k].id)
        /\ \A k \in 1..Len(st.calendar_events) :
            OnlyOwn(calendar_events, user_id, LAMBDA row : row.id = st.calendar_events[k].id)
        /\ \A k \in 1..Len(st.devices) :
            OnlyOwn(devices, user_id, LAMBDA row : row.id = st.devices[k].id)
        /\ \A k \in 1..Len(st.check_ins) :
            OnlyOwn(check_ins, user_id,
                    LAMBDA row : fromisoformat(row.timestamp) = st.check_ins[k].timestamp)
        /\ \A k \in 1..Len(st.appointments) :
            OnlyOwn(appointments, user_id,
                    LAMBDA row : fromisoformat(row.date) = st.appointments[k].date)
        /\ \A k \in 1..Len(st.symptoms) :
            OnlyOwn(symptoms, user_id,
                    LAMBDA row : fromisoformat(row.date) = st.symptoms[k].date)

\* C18: with two accounts that both own rows, no write made in the session of
\* one account creates, changes or deletes a stored row of the other account,
\* and the lists loaded into a session hold rows of its own account only.
OwnershipScoped ==
    \A s \in Sessions : Authenticated(s) => WritesScoped(s) /\ LoadedListsOwn(s)

\* both accounts own a row in every table, both sessions show lists, and the
\* owner has just cleared its completed tasks
OwnershipScopedWitness ==
    /\ \A s \in Sessions :
        /\ Has(check_ins, s) /\ Has(appointments, s) /\ Has(symptoms, s) /\ Has(devices, s)
        /\ Has(calendar_events, s)
        /\ session_state[s].check_ins # <<>> /\ session_state[s].calendar_events # <<>>
    /\ Has(personal_tasks, OtherSession)
    /\ last_step.op = "clear_completed_tasks"
    /\ session_state[OwnerSession].tasks = <<>>

(***************************************************************************)
(* Two tabs of one account                                                 *)
(***************************************************************************)
\* the checklist stored for an event
StoredTasks(table, event_id) ==
    LET at == CHOOSE i \in 1..Len(table) : table[i].id = event_id
    IN  json_loads(table[at].tasks_json)

\* the world a handler of session s sees once storage is as in w
Seen(s, w) == [w EXCEPT !.st = session_state[s], !.qp = query_params[s], !.msgs = {}]

\* session first ticks or unticks item i of its copy, then session second
\* does so with item j of its own copy
WrittenFirst(first, i) ==
    LET event == EventAt(first, 1)
    IN  toggle_event_task_state(main(World(first)), event.id, event.tasks[i].id,
                                ~event.tasks[i].done)

WrittenSecond(first, i, second, j) ==
    LET event == EventAt(second, 1)
    IN  toggle_event_task_state(main(Seen(second, WrittenFirst(first, i))), event.id,
                                event.tasks[j].id, ~event.tasks[j].done)

HoldSameEvent(first, second) ==
    /\ Authenticated(first) /\ Authenticated(second)
    /\ session_state[first].user[1].id = session_state[second].user[1].id
    /\ Len(session_state[first].calendar_events) = 1
    /\ Len(session_state[second].calendar_events) = 1
    /\ EventAt(first, 1).id = EventAt(second, 1).id
    /\ \E at \in 1..Len(calendar_events) : calendar_events[at].id = EventAt(first, 1).id

\* C19: two sessions of one account hold a loaded copy of the same event and
\* each toggles a different checklist item: both writes are stored, none is
\* refused, and afterwards the stored checklist is the whole list of the
\* session that wrote last, so the first session's item is as the second
\* session's copy had it.
LastWriteWins ==
    \A first \in Sessions, second \in Sessions :
        first # second /\ HoldSameEvent(first, second) =>
            \A i \in 1..Len(EventAt(first, 1).tasks), j \in 1..Len(EventAt(second, 1).tasks) :
                i # j =>
                    LET event_id == EventAt(first, 1).id
                        w1 == WrittenFirst(first, i)
                        w2 == WrittenSecond(first, i, second, j)
                    IN  /\ w1.msgs = {} /\ w2.msgs = {}
                        /\ StoredTasks(w1.calendar_events, event_id)
                                = w1.st.calendar_events[1].tasks
                        /\ StoredTasks(w1.calendar_events, event_id)[i].done
                                = ~EventAt(first, 1).tasks[i].done
                        /\ StoredTasks(w2.calendar_events, event_id)
                                = w2.st.calendar_events[1].tasks
                        /\ StoredTasks(w2.calendar_events, event_id)
                                = [EventAt(second, 1).tasks EXCEPT ![j].done = ~@]

\* tab 1 ticked the first item, then tab 2, whose copy was loaded before,
\* ticked the second: the stored list is tab 2's list and the first tick is lost
LastWriteWinsWitness ==
    /\ HoldSameEvent(1, 2)
    /\ last_step.op = "toggle_event_task"
    /\ EventAt(1, 1).tasks[1].done /\ ~EventAt(1, 1).tasks[2].done
    /\ ~EventAt(2, 1).tasks[1].done /\ EventAt(2, 1).tasks[2].done
    /\ StoredTasks(calendar_events, EventAt(2, 1).id) = EventAt(2, 1).tasks
    /\ StoredTasks(calendar_events, EventAt(1, 1).id) # EventAt(1, 1).tasks

(***************************************************************************)
(* Focus timer properties                                                  *)
(***************************************************************************)
TimerStates == {"ready", "work", "break"}

\* the f-strings of the announcements, for the minutes the claim gives
Announced(latest_energy) ==
    LET minutes == IF latest_energy <= 3 THEN <<"10", "5">>
                   ELSE IF latest_energy <= 7 THEN <<"25", "5">>
                   ELSE <<"45", "15">>
    IN  [work |-> "Working for " \o minutes[1] \o " minutes...",
         rest |-> "Break for " \o minutes[2] \o " minutes."]

\* a step changes the timer of session s only as one of the three presses do
TimerTransition(s) ==
    LET before == session_state[s]
        after == session_state'[s]
        pressed == last_step'.op
    IN  /\ after.focus_timer_state \in TimerStates \cup {Absent}
        /\ before.focus_timer_state # after.focus_timer_state =>
            \/ /\ before.focus_timer_state = "ready" /\ after.focus_timer_state = "work"
               /\ pressed = "focus_start"
            \/ /\ before.focus_timer_state = "work" /\ after.focus_timer_state = "break"
               /\ pressed = "focus_end_work"
            \/ /\ before.focus_timer_state = "break" /\ after.focus_timer_state = "ready"
               /\ pressed = "focus_end_break"
            \* the widget's first run creates the state
            \/ /\ before.focus_timer_state = Absent /\ after.focus_timer_state = "ready"
               /\ pressed = "render_focus_timer"
        /\ before.focus_timer_message # after.focus_timer_message =>
            /\ before.focus_timer_state # after.focus_timer_state
            /\ before.latest_energy = after.latest_energy
            /\ after.focus_timer_state = "work" =>
                after.focus_timer_message = Announced(before.latest_energy).work
            /\ after.focus_timer_state = "break" =>
                after.focus_timer_message = Announced(before.latest_energy).rest

\* a press of the button the widget shows moves the timer and announces it
PressMoves ==
    last_step'.op \in FocusButtons =>
        \E s \in Sessions :
            /\ session_state[s].focus_timer_state # session_state'[s].focus_timer_state
            /\ session_state'[s].focus_timer_message \in messages'

\* C20: the focus timer is in one of ready, work, break once its widget has
\* run; its state changes only from ready to work, work to break and break to
\* ready, each by the press of its own button; an energy change, a check-in,
\* a sign-out or a sign-in leaves it as it is; the announcement names 10/5
\* minutes for energy <= 3, 25/5 for energy <= 7 and 45/15 above.
FocusTimerMachine == [][PressMoves /\ \A s \in Sessions : TimerTransition(s)]_vars

\* after a check-in, the end of a work block announces a break of 15 minutes
FocusTimerMachineWitness ==
    /\ last_step.op = "focus_end_work"
    /\ session_state[1].focus_timer_state = "break"
    /\ session_state[1].focus_timer_message = "Break for 15 minutes."
    /\ session_state[1].check_ins # <<>>

(***************************************************************************)
(* Reminder properties                                                     *)
(***************************************************************************)
CadenceDays == [label \in {"Dental Cleaning", "Therapy", "Annual Physical"} |->
                    CASE label = "Dental Cleaning" -> 180
                      [] label = "Therapy" -> 7
                      [] label = "Annual Physical" -> 365]

DaysOf(appts, label) ==
    {appts[k].date \div MinutesPerDay : k \in {i \in 1..Len(appts) : appts[i].category = label}}

\* C21: appointment_reminders emits exactly one reminder for each of Dental
\* Cleaning (180 days), Therapy (7 days) and Annual Physical (365 days): the
\* not-yet-logged prompt when the list has no appointment of the category;
\* otherwise, with due = latest date of the category + cadence, the
\* ready-to-be-scheduled-again prompt when due <= today and else the nudge
\* that names the due date.
ReminderCadence ==
    call.fn = "appointment_reminders" =>
        /\ Len(call.result) = 3
        /\ \A label \in DOMAIN CadenceDays :
            LET hits == {i \in 1..Len(call.result) : call.result[i].label = label}
                days == DaysOf(call.args, label)
            IN  /\ Cardinality(hits) = 1
                /\ \A i \in hits :
                    LET reminder == call.result[i]
                    IN  IF days = {} THEN reminder.prompt = "not logged yet"
                        ELSE IF Max(days) + CadenceDays[label] <= ReminderToday
                        THEN reminder.prompt = "ready to be scheduled again"
                        ELSE /\ reminder.prompt = "feels good around"
                             /\ reminder.due = Max(days) + CadenceDays[label]

\* a dental cleaning exactly 180 days ago is ready, a therapy session 6 days
\* ago gets the nudge for tomorrow, and no annual physical is logged
ReminderCadenceWitness ==
    /\ call.fn = "appointment_reminders"
    /\ DaysOf(call.args, "Dental Cleaning") = {ReminderToday - 180}
    /\ DaysOf(call.args, "Therapy") = {ReminderToday - 6}
    /\ call.result[1] = [prompt |-> "ready to be scheduled again", label |-> "Dental Cleaning",
                         due |-> NoDue]
    /\ call.result[2] = [prompt |-> "feels good around", label |-> "Therapy",
                         due |-> ReminderToday + 1]
    /\ call.result[3].prompt = "not logged yet"

TrimmedLines(text) ==
    SelectSeq([i \in 1..Len(text) |-> Strip(text[i])], LAMBDA line : line # <<>>)

\* C23: build_tasks_from_text(text, seed) returns one task per non-blank
\* trimmed line, in line order; a line that is the label of a seed task
\* carries the id, done flag and link of a seed task with that label; any
\* other line is a new task with a fresh id, not done and not linked; a seed
\* task whose label is no line is not in the result.
RediffOnEdit ==
    call.fn = "build_tasks_from_text" =>
        LET lines == TrimmedLines(call.args.text)
            seed == call.args.seed
            tasks == call.result
            seed_ids == {seed[i].id : i \in 1..Len(seed)}
        IN  /\ Len(tasks) = Len(lines)
            /\ \A k \in 1..Len(tasks) :
                /\ tasks[k].label = lines[k]
                /\ IF \E i \in 1..Len(seed) : seed[i].label = lines[k]
                   THEN \E i \in 1..Len(seed) :
                            /\ seed[i].label = lines[k]
                            /\ tasks[k].id = seed[i].id
                            /\ tasks[k].done = seed[i].done
                            /\ tasks[k].linked_task_id = seed[i].linked_task_id
                   ELSE /\ tasks[k].id \notin seed_ids
                        /\ \A j \in 1..Len(tasks) : j # k => tasks[j].id # tasks[k].id
                        /\ ~tasks[k].done
                        /\ tasks[k].linked_task_id = None
            /\ \A i \in 1..Len(seed) :
                (\A k \in 1..Len(lines) : lines[k] # seed[i].label) =>
                    \A k \in 1..Len(tasks) : tasks[k].id # seed[i].id

\* the ticked and linked task "p" is kept under a line typed with a blank in
\* front, "r" is new, and the seed task "q" is gone
RediffOnEditWitness ==
    /\ call.fn = "build_tasks_from_text"
    /\ call.args.text = <<<<" ", "p">>, <<"r">>>>
    /\ Len(call.args.seed) = 2
    /\ call.args.seed[1].label = <<"p">> /\ call.args.seed[1].done
    /\ call.args.seed[1].linked_task_id # None
    /\ call.args.seed[2].label = <<"q">>
    /\ call.result[1] = call.args.seed[1]
    /\ call.result[2] = [id |-> uuid4(3), label |-> <<"r">>, done |-> FALSE,
                         linked_task_id |-> None]

(***************************************************************************)
(* Re-entry properties                                                     *)
(***************************************************************************)
\* the screen is needed exactly when the claim says so, and a button or a
\* saved check-in acknowledges
NeedsScreenExactly ==
    \A s \in Sessions :
        Authenticated(s) =>
            LET st == session_state[s]
                stamps == {st.check_ins[k].timestamp : k \in 1..Len(st.check_ins)}
            IN  /\ \A clock \in RenderClocks :
                    /\ needs_no_shame_screen(main(World(s)), clock)
                        <=> /\ ~st.reentry_acknowledged
                            /\ \/ stamps = {}
                               \/ clock - Max(stamps) > 3 * TicksPerDay
                    /\ needs_no_shame_screen(main(World(s)), clock) =>
                        \A pressed \in DOMAIN ReentryToasts :
                            reentry_buttons(main(World(s)), clock, pressed).st.reentry_acknowledged
                /\ check_in_home(main(World(s)), CheckInClock, 5, 5, "Day",
                                 <<"o", "k">>).st.reentry_acknowledged

AcknowledgedStays ==
    \A s \in Sessions :
        session_state[s].reentry_acknowledged => session_state'[s].reentry_acknowledged

\* C24: needs_no_shame_screen is true exactly when re-entry is not yet
\* acknowledged in the session and the session holds no check-in or its most
\* recent check-in is more than 3 days old; each of the three buttons and a
\* saved check-in acknowledge, and an acknowledged session stays acknowledged.
NoShameReentry == []NeedsScreenExactly /\ [][AcknowledgedStays]_vars

\* on day 4 a second browser session holds a check-in of day 1: exactly three
\* days old it needs no screen, a moment later it does
NoShameReentryWitness ==
    /\ now = 4
    /\ Authenticated(2)
    /\ ~session_state[2].reentry_acknowledged
    /\ Len(session_state[2].check_ins) = 1
    /\ session_state[2].check_ins[1].timestamp = TicksPerDay
    /\ ~needs_no_shame_screen(World(2), 4 * TicksPerDay)
    /\ needs_no_shame_screen(World(2), 4 * TicksPerDay + 1)
    /\ session_state[1].reentry_acknowledged

(***************************************************************************)
(* Token table properties                                                  *)
(***************************************************************************)
\* C25: an auto-login that succeeds leaves the session-token table as it was:
\* the record of the presented token keeps its hash, wrapped key and expiry,
\* and no record is added or removed.
AutoLoginKeepsTokens ==
    \A s \in Sessions, token \in 1..rng :
        LET w == VisitResult(s, token)
        IN  Truthy(w.st.user) =>
                /\ w.session_tokens = session_tokens
                /\ w.rng = rng
                /\ \E row \in w.session_tokens :
                    /\ row.token_hash = hash_token(token)
                    /\ \E grant \in issued :
                        /\ grant.token = token
                        /\ row.expires_at = isoformat(grant.issued_at + TokenTTLDays)

\* a token granted on an earlier day has just signed a new browser session in,
\* and its record still expires 7 days after the grant
AutoLoginKeepsTokensWitness ==
    /\ last_step.op = "visit"
    /\ Authenticated(1)
    /\ \E grant \in issued :
        /\ grant.token = last_step.token
        /\ grant.issued_at < now
        /\ \E row \in session_tokens :
            /\ row.token_hash = hash_token(grant.token)
            /\ row.expires_at = isoformat(grant.issued_at + TokenTTLDays)

(***************************************************************************)
(* Session guard properties                                                *)
(***************************************************************************)
\* C26: in every reachable state a session has a user exactly when it has a
\* crypto key; while it has no user, its check-in, appointment, symptom,
\* device, task and calendar-event lists are empty and data_loaded is false.
UserIffKey ==
    \A s \in Sessions :
        /\ Truthy(session_state[s].user) <=> Truthy(session_state[s].crypto_key)
        /\ ~Truthy(session_state[s].user) => NoEntityLoaded(session_state[s])

\* every table has a row of the account; session 1 has just signed out and
\* holds nothing, session 2 came in by token and holds every list
UserIffKeyWitness ==
    /\ last_step.op = "sign_out"
    /\ ~Authenticated(1) /\ NoEntityLoaded(session_state[1])
    /\ check_ins # <<>> /\ appointments # <<>> /\ symptoms # <<>> /\ devices # <<>>
    /\ calendar_events # <<>> /\ personal_tasks # <<>>
    /\ Authenticated(2)
    /\ \A i \in 1..6 : EntityLists(session_state[2])[i] # <<>>

(***************************************************************************)
(* Linked event tasks and personal tasks                                   *)
(***************************************************************************)
\* C27: every stored Event Task whose linked_task_id names an existing
\* Personal Task has the same done flag as that Personal Task, after any
\* sequence of pushes to the personal list, event-task toggles, personal-task
\* toggles and event edits.
LinkedDoneAgrees ==
    \A r \in 1..Len(calendar_events) :
        LET tasks == json_loads(calendar_events[r].tasks_json)
        IN  \A i \in 1..Len(tasks) :
                LET X == tasks[i].linked_task_id
                IN  (X # None /\ HasRow(personal_tasks, X)) =>
                        tasks[i].done = Row(personal_tasks, X).done


\* C28: every non-empty linked_task_id stored on an Event Task refers to a
\* Personal Task that exists for the same user, after any sequence of pushes
\* to the personal list, toggles and clear-completed actions.
LinksResolve ==
    \A r \in 1..Len(calendar_events) :
        LET tasks == json_loads(calendar_events[r].tasks_json)
        IN  \A i \in 1..Len(tasks) :
                tasks[i].linked_task_id # None =>
                    \E k \in 1..Len(personal_tasks) :
                        /\ personal_tasks[k].id = tasks[i].linked_task_id
                        /\ personal_tasks[k].user_id = calendar_events[r].user_id


\* C29: the Event Tasks of one calendar event have pairwise distinct ids, in
\* storage and in every session, after any sequence of event creations and
\* edits, including an edit whose checklist text repeats a line that matches
\* an existing task's label.
DistinctIds(tasks) == \A i \in 1..Len(tasks), j \in 1..Len(tasks) : tasks[i].id = tasks[j].id => i = j

EventTaskIdsDistinct ==
    /\ \A r \in 1..Len(calendar_events) : DistinctIds(json_loads(calendar_events[r].tasks_json))
    /\ \A s \in Sessions :
        \A at \in 1..Len(session_state[s].calendar_events) : DistinctIds(EventAt(s, at).tasks)


\* C30: within one authenticated session, after every completed action (add
\* or toggle a personal task, toggle or link an event task, clear completed,
\* add, edit or delete an event) the session's personal-task list and
\* calendar-event list (ids, done flags, completion times, task lists and
\* links) equal what load_user_data would rebuild from storage for that user.
TaskView(tasks) == [k \in 1..Len(tasks) |-> [id |-> tasks[k].id, done |-> tasks[k].done, completed_at |-> tasks[k].completed_at]]
EventView(events) == [k \in 1..Len(events) |-> [id |-> events[k].id, tasks |-> events[k].tasks]]

SessionEqualsReload ==
    \A s \in Sessions :
        Authenticated(s) =>
            LET rebuilt == load_user_data(World(s)).st
            IN  /\ TaskView(session_state[s].tasks) = TaskView(rebuilt.tasks)
                /\ EventView(session_state[s].calendar_events) = EventView(rebuilt.calendar_events)

\* an event task pushed to the personal list has just been ticked while
\* another personal task and an event with two tasks are held
SessionEqualsReloadWitness ==
    /\ last_step.op = "toggle_event_task"
    /\ Len(session_state[1].tasks) = 2
    /\ \E k \in 1..2 : session_state[1].tasks[k].done /\ session_state[1].tasks[k].completed_at # None
    /\ \E at \in 1..Len(session_state[1].calendar_events) :
        /\ Len(EventAt(1, at).tasks) = 2
        /\ EventAt(1, at).tasks[1].linked_task_id # None
        /\ EventAt(1, at).tasks[1].done

====
